---- MODULE Spec2Model ----
(***************************************************************************)
(* hometree: deploy / rollback / verify engine, generation log, advisory   *)
(* lock, inhibit marker, debounce queue and the watch daemon's main loop.  *)
(***************************************************************************)
EXTENDS Integers, Sequences, FiniteSets, TLC

(***************************************************************************)
(* Bounds of the model.                                                    *)
(***************************************************************************)
MaxGens == 3        \* longest generation log explored with the two fixed commits
MaxDeploys == 2     \* longest generation log explored over arbitrary trees
MaxSteps == 2       \* largest --steps value given to rollback
MaxTime == 4        \* monotonic clock (Instant) runs 0..MaxTime
MaxWindow == 2      \* debounce windows explored: 1..MaxWindow
MaxWall == 1        \* wall clock (SystemTime) runs 0..MaxWall
MaxPushes == 3      \* pushes into one Debounce between two drains
MaxRules == 2       \* secret rules in one configuration
MaxCommits == 2     \* commits made by snapshot
MaxControl == 2      \* messages waiting in control_rx
MaxConfigs == 1      \* edits of the configuration file
MaxFails == 8       \* calls of Backoff::fail in a row
MaxBackoffTime == 120   \* the clock of the Backoff on its own (one unit is 200 ms)

(***************************************************************************)
(* Paths.  A home-relative path is named by its string; PathComps gives    *)
(* its components (what Path::components yields).                          *)
(***************************************************************************)
Home == <<"h", "u">>

HomePaths == {"c/f", "c/l", "c/s", "c/s.age", "z"}

PathComps(p) ==
    CASE p = "c/f" -> <<"c", "f">>
      [] p = "c/l" -> <<"c", "l">>
      [] p = "c/s" -> <<"c", "s">>
      [] p = "c/s.age" -> <<"c", "s.age">>
      [] p = "z" -> <<"z">>
      [] p = "c/k.age" -> <<"c", "k.age">>

\* BTreeMap / BTreeSet iteration order of the paths (byte order)
PathOrder == <<"c/f", "c/l", "c/s", "c/s.age", "z">>

\* home_dir.join(rel)
Join(rel) == Home \o PathComps(rel)

\* Path::parent of an absolute component sequence
Parent(abs) == IF Len(abs) = 0 THEN abs ELSE SubSeq(abs, 1, Len(abs) - 1)

\* Path::starts_with, on component sequences
StartsWith(abs, prefix) ==
    /\ Len(abs) >= Len(prefix)
    /\ SubSeq(abs, 1, Len(prefix)) = prefix

(***************************************************************************)
(* Symlink targets (blob bytes of a 120000 entry).  TargetAbs /            *)
(* TargetComps are Path::is_absolute and Path::components of the string.   *)
(***************************************************************************)
Targets == {"./f", "nx", "../z", "../../e", "../..", "/e/p", "/h/u/z"}

\* link targets found in the home tree before the first deploy
HomeTargets == {"/e/p", "/h/u/c/l"}

TargetAbs(t) == t \in {"/e/p", "/h/u/z", "/h/u/c/l"}

TargetComps(t) ==
    CASE t = "./f" -> <<".", "f">>
      [] t = "nx" -> <<"nx">>
      [] t = "../z" -> <<"..", "z">>
      [] t = "../../e" -> <<"..", "..", "e">>
      [] t = "../.." -> <<"..", "..">>
      [] t = "/e/p" -> <<"e", "p">>
      [] t = "/h/u/z" -> <<"h", "u", "z">>
      [] t = "/h/u/c/l" -> <<"h", "u", "c", "l">>

RECURSIVE WalkComponents(_, _)
WalkComponents(normalized, comps) ==
    IF comps = <<>> THEN normalized
    ELSE LET c == Head(comps)
             next == CASE c = "." -> normalized
                       [] c = ".." -> Parent(normalized)
                       [] OTHER -> Append(normalized, c)
         IN WalkComponents(next, Tail(comps))

\* deploy.rs normalize_symlink_target: symbolic resolution, no filesystem
normalize_symlink_target(base, t) ==
    WalkComponents(IF TargetAbs(t) THEN <<>> ELSE base, TargetComps(t))

\* deploy.rs validate_symlink_target: TRUE when Ok(())
validate_symlink_target(rel, t) ==
    /\ StartsWith(Join(rel), Home)
    /\ StartsWith(normalize_symlink_target(Parent(Join(rel)), t), Home)


(***************************************************************************)
(* Configuration: one managed root "c/" (glob "c/**"), one secret rule     *)
(* c/s -> c/s.age.  The rule's plaintext path is pushed into the ignore    *)
(* patterns when the configuration is loaded.                              *)
(***************************************************************************)
ManageRoots == {"c"}
SecretRules == {[path |-> "c/s", ciphertext |-> "c/s.age"]}

\* config.rs apply_secrets_defaults: ignore patterns after load_from
IgnorePatterns(cfgSecrets) ==
    IF cfgSecrets THEN {r.path : r \in SecretRules} ELSE {}

\* globset match of the normalized root pattern "<root>/**"
MatchesRoot(p) ==
    \E r \in ManageRoots : Len(PathComps(p)) > 1 /\ PathComps(p)[1] = r

\* managed_set.rs ManagedSet::is_managed (the deny list is empty)
is_managed(cfgSecrets, p) ==
    MatchesRoot(p) /\ p \notin IgnorePatterns(cfgSecrets)

\* secrets.rs SecretsManager::is_ciphertext_rule_path
is_ciphertext_rule_path(p) == \E r \in SecretRules : r.ciphertext = p

\* secrets.rs AgeBackend::decrypt: the plaintext, or "error"
Decrypt(blob) ==
    CASE blob = "enc:top" -> "top"
      [] blob = "enc:low" -> "low"
      [] OTHER -> "error"

\* secrets.rs AgeBackend::encrypt
Encrypt(plain) == IF plain = "top" THEN "enc:top" ELSE "enc:other"

(***************************************************************************)
(* The repository: two commits, HEAD = B and HEAD~1 = A.                   *)
(***************************************************************************)
Revs == {"A", "B"}

HeadTilde(n) ==
    CASE n = 1 -> "HEAD~1"
      [] n = 2 -> "HEAD~2"
      [] OTHER -> "HEAD~n"

Refs == {"HEAD", "HEAD~1", "HEAD~2", "A", "B"}

\* git rev-parse: canonical id, or "error" for a ref that does not resolve
rev_parse(ref) ==
    CASE ref = "HEAD" -> "B"
      [] ref = "HEAD~1" -> "A"
      [] ref \in Revs -> ref
      [] OTHER -> "error"

TreePaths == {"c/f", "c/l", "c/s.age", "z"}
NoEntry == [mode |-> "none", blob |-> ""]
FileEntry(mode, blob) == [mode |-> mode, blob |-> blob]

(***************************************************************************)
(* The home tree.  A node is absent, a regular file (content, mode bits),  *)
(* a symlink (target string) or a directory.                               *)
(***************************************************************************)
\* permission bits: 0o644, what a file created without a mode gets
CreateMode == 420
\* 0o600
DefaultSecretMode == 384

\* the octal digit k of a mode
ModeDigit(m, k) == (m \div (8 ^ k)) % 8

\* mode & 0o111 != 0
has_exec(m) == \E k \in 0..2 : ModeDigit(m, k) % 2 = 1

\* mode |= 0o111 (on) or mode &= !0o111
set_exec(m, on) ==
    LET d(k) == ModeDigit(m, k) - (ModeDigit(m, k) % 2) + (IF on THEN 1 ELSE 0)
    IN 64 * d(2) + 8 * d(1) + d(0)

Absent == [kind |-> "absent", data |-> "", mode |-> 0]
File(content, mode) == [kind |-> "file", data |-> content, mode |-> mode]
RegFile(content, exec) == File(content, set_exec(CreateMode, exec))
Symlink(t) == [kind |-> "symlink", data |-> t, mode |-> 0]
Dir == [kind |-> "dir", data |-> "", mode |-> 0]

\* absolute paths outside home that exist on the machine
OutsideExisting == {<<>>, <<"h">>, <<"e">>, <<"e", "p">>}

\* what the kernel resolves a link at home/rel with target t to
LinkDest(rel, t) ==
    WalkComponents(IF TargetAbs(t) THEN <<>> ELSE Parent(Join(rel)), TargetComps(t))

\* Path::exists (fs::metadata, follows symlinks) of an absolute path
RECURSIVE AbsExists(_, _, _)
AbsExists(tree, abs, depth) ==
    IF ~StartsWith(abs, Home) THEN abs \in OutsideExisting
    ELSE IF abs = Home \/ (\E r \in ManageRoots : abs = Home \o <<r>>) THEN TRUE
    ELSE IF \E p \in HomePaths : Join(p) = abs
         THEN LET p == CHOOSE q \in HomePaths : Join(q) = abs
              IN CASE tree[p].kind = "absent" -> FALSE
                   [] tree[p].kind = "symlink" ->
                        /\ depth > 0
                        /\ AbsExists(tree, LinkDest(p, tree[p].data), depth - 1)
                   [] OTHER -> TRUE
         ELSE FALSE

Exists(tree, rel) == AbsExists(tree, Join(rel), Cardinality(HomePaths))

(***************************************************************************)
(* deploy.rs: target and current sets.                                     *)
(***************************************************************************)
\* collect_target_paths
collect_target_paths(cfgSecrets, secretsEnabled, revTree) ==
    {p \in TreePaths :
        /\ revTree[p].mode # "none"
        /\ \/ is_managed(cfgSecrets, p)
           \/ (secretsEnabled /\ is_ciphertext_rule_path(p))}

\* collect_current_paths: walk of the managed roots, links not followed
collect_current_paths(cfgSecrets, secretsEnabled, tree) ==
    {p \in HomePaths :
        /\ MatchesRoot(p)
        /\ tree[p].kind \in {"file", "symlink"}
        /\ \/ is_managed(cfgSecrets, p)
           \/ (secretsEnabled /\ is_ciphertext_rule_path(p))}

\* the paths of a set in BTree order
Ordered(S) == SelectSeq(PathOrder, LAMBDA p : p \in S)

(***************************************************************************)
(* deploy.rs apply_target.  The result is [tree, ok]; on an error the      *)
(* entries before the failing one have been applied.                       *)
(***************************************************************************)
\* apply_entry without the is_dir refusal for a regular entry
apply_entry_over_dir(tree, rel, entry) ==
    IF entry.mode = "120000"
    THEN IF ~validate_symlink_target(rel, entry.blob)
         THEN [tree |-> tree, ok |-> FALSE]
         ELSE IF tree[rel].kind = "dir"
         THEN [tree |-> tree, ok |-> FALSE]
         ELSE [tree |-> [tree EXCEPT ![rel] = Symlink(entry.blob)], ok |-> TRUE]
    ELSE [tree |-> [tree EXCEPT ![rel] =
                      File(entry.blob,
                           set_exec(IF tree[rel].kind = "file" THEN tree[rel].mode
                                    ELSE CreateMode,
                                    entry.mode = "100755"))],
          ok |-> TRUE]

\* apply_entry opening a regular entry's path without unlinking a symlink
\* first: the blob lands in the file the link points to
apply_entry_follows_symlink(tree, rel, entry) ==
    IF entry.mode = "120000"
    THEN IF ~validate_symlink_target(rel, entry.blob)
         THEN [tree |-> tree, ok |-> FALSE]
         ELSE IF tree[rel].kind = "dir"
         THEN [tree |-> tree, ok |-> FALSE]
         ELSE [tree |-> [tree EXCEPT ![rel] = Symlink(entry.blob)], ok |-> TRUE]
    ELSE IF tree[rel].kind = "dir"
         THEN [tree |-> tree, ok |-> FALSE]
         ELSE IF tree[rel].kind = "symlink"
         THEN LET dest == LinkDest(rel, tree[rel].data)
              IN IF \E q \in HomePaths : Join(q) = dest /\ tree[q].kind \in {"absent", "file"}
                 THEN LET q == CHOOSE x \in HomePaths : Join(x) = dest
                      IN [tree |-> [tree EXCEPT ![q] =
                                      File(entry.blob,
                                           set_exec(IF tree[q].kind = "file" THEN tree[q].mode
                                                    ELSE CreateMode,
                                                    entry.mode = "100755"))],
                          ok |-> TRUE]
                 ELSE [tree |-> tree, ok |-> dest \in OutsideExisting]
         ELSE [tree |-> [tree EXCEPT ![rel] =
                            File(entry.blob,
                                 set_exec(IF tree[rel].kind = "file" THEN tree[rel].mode
                                          ELSE CreateMode,
                                          entry.mode = "100755"))],
               ok |-> TRUE]

apply_entry(tree, rel, entry) ==
    IF entry.mode = "120000"
    THEN IF ~validate_symlink_target(rel, entry.blob)
         THEN [tree |-> tree, ok |-> FALSE]
         ELSE IF tree[rel].kind = "dir"
         THEN [tree |-> tree, ok |-> FALSE]
         ELSE [tree |-> [tree EXCEPT ![rel] = Symlink(entry.blob)], ok |-> TRUE]
    ELSE IF tree[rel].kind = "dir"
         THEN [tree |-> tree, ok |-> FALSE]
         ELSE \* a symlink is unlinked, a regular file truncated; then
              \* mode |= 0o111 for 100755 and mode &= !0o111 otherwise
              [tree |-> [tree EXCEPT ![rel] =
                            File(entry.blob,
                                 set_exec(IF tree[rel].kind = "file" THEN tree[rel].mode
                                          ELSE CreateMode,
                                          entry.mode = "100755"))],
               ok |-> TRUE]

RECURSIVE apply_seq(_, _, _)
apply_seq(tree, revTree, rels) ==
    IF rels = <<>> THEN [tree |-> tree, ok |-> TRUE]
    ELSE LET r == apply_entry(tree, Head(rels), revTree[Head(rels)])
         IN IF r.ok THEN apply_seq(r.tree, revTree, Tail(rels)) ELSE r

apply_target(tree, revTree, target) == apply_seq(tree, revTree, Ordered(target))

\* SecretRule.mode unset
NoMode == -1

\* rule.mode.unwrap_or(0o600)
secret_mode(rule_mode) == IF rule_mode = NoMode THEN DefaultSecretMode ELSE rule_mode

\* apply_secrets without the set_permissions after the write: the mode of
\* OpenOptions counts only when the file is created
apply_secrets_mode_on_create(tree, secretsEnabled, revTree, rule_mode) ==
    IF ~secretsEnabled THEN [tree |-> tree, ok |-> TRUE]
    ELSE LET rule == CHOOSE r \in SecretRules : TRUE
             blob == revTree[rule.ciphertext]
         IN IF blob.mode = "none" THEN [tree |-> tree, ok |-> FALSE]
            ELSE IF Decrypt(blob.blob) = "error" THEN [tree |-> tree, ok |-> FALSE]
            ELSE IF tree[rule.path].kind = "dir" THEN [tree |-> tree, ok |-> FALSE]
            ELSE [tree |-> [tree EXCEPT ![rule.path] =
                              File(Decrypt(blob.blob),
                                   IF tree[rule.path].kind = "file" THEN tree[rule.path].mode
                                   ELSE secret_mode(rule_mode))],
                  ok |-> TRUE]

\* deploy.rs apply_secrets (one rule): a symlink at the plaintext path is
\* unlinked, the file created or truncated, its permissions set
apply_secrets(tree, secretsEnabled, revTree, rule_mode) ==
    IF ~secretsEnabled THEN [tree |-> tree, ok |-> TRUE]
    ELSE LET rule == CHOOSE r \in SecretRules : TRUE
             blob == revTree[rule.ciphertext]
         IN IF blob.mode = "none" THEN [tree |-> tree, ok |-> FALSE]
            ELSE IF Decrypt(blob.blob) = "error" THEN [tree |-> tree, ok |-> FALSE]
            ELSE IF tree[rule.path].kind = "dir" THEN [tree |-> tree, ok |-> FALSE]
            ELSE [tree |-> [tree EXCEPT ![rule.path] =
                              File(Decrypt(blob.blob), secret_mode(rule_mode))],
                  ok |-> TRUE]

\* deploy.rs delete_missing: best-effort remove_file, never an error
delete_missing(tree, current, target) ==
    [p \in HomePaths |->
        IF p \in current /\ p \notin target /\ tree[p].kind \in {"file", "symlink"}
        THEN Absent ELSE tree[p]]


(***************************************************************************)
(* verify.rs: the report categories that verify_expected and the strict    *)
(* pass of verify fill in.                                                 *)
(***************************************************************************)
verify_missing(tree, revTree, target) ==
    {p \in target : ~Exists(tree, p)}

verify_type_mismatch(tree, revTree, target) ==
    {p \in target :
        /\ Exists(tree, p)
        /\ IF revTree[p].mode = "120000" THEN tree[p].kind # "symlink"
           ELSE tree[p].kind # "file"}

verify_modified(tree, revTree, target) ==
    {p \in target :
        /\ Exists(tree, p)
        /\ IF revTree[p].mode = "120000"
           THEN tree[p].kind = "symlink" /\ tree[p].data # revTree[p].blob
           ELSE tree[p].kind = "file" /\ tree[p].data # revTree[p].blob}

verify_mode_mismatch(tree, revTree, target, strict) ==
    {p \in target :
        /\ strict
        /\ Exists(tree, p)
        /\ revTree[p].mode # "120000"
        /\ tree[p].kind = "file"
        /\ has_exec(tree[p].mode) # (revTree[p].mode = "100755")}

verify_unexpected(cfgSecrets, tree, target, strict) ==
    {p \in collect_current_paths(cfgSecrets, cfgSecrets, tree) : strict /\ p \notin target}

\* verify.rs verify (secrets_mode = skip)
verify(cfgSecrets, tree, revTree, strict) ==
    LET target == collect_target_paths(cfgSecrets, cfgSecrets, revTree)
    IN [missing |-> verify_missing(tree, revTree, target),
        modified |-> verify_modified(tree, revTree, target),
        type_mismatch |-> verify_type_mismatch(tree, revTree, target),
        mode_mismatch |-> verify_mode_mismatch(tree, revTree, target, strict),
        unexpected |-> verify_unexpected(cfgSecrets, tree, target, strict)]

(***************************************************************************)
(* plan.rs plan_deploy: the entries sorted by path.  A path gets at most   *)
(* one entry: create or update when it is a target, delete when it is not. *)
(***************************************************************************)
\* fs::read(&abs).unwrap_or_default() of a path that exists
read_or_default(tree, rel) ==
    IF tree[rel].kind = "file" THEN tree[rel].data ELSE ""

\* lines 78-90: symlink_metadata does not follow the link at abs
needs_update(tree, rel, entry) ==
    IF tree[rel].kind = "symlink" THEN tree[rel].data # entry.blob
    ELSE read_or_default(tree, rel) # entry.blob

plan_action(tree, revTree, target, current, rel) ==
    IF rel \in target
    THEN IF ~Exists(tree, rel) THEN "create"
         ELSE IF needs_update(tree, rel, revTree[rel]) THEN "update"
         ELSE "none"
    ELSE IF rel \in current THEN "delete" ELSE "none"

plan_deploy(cfgSecrets, tree, revTree) ==
    LET target == collect_target_paths(cfgSecrets, cfgSecrets, revTree)
        current == collect_current_paths(cfgSecrets, cfgSecrets, tree)
        paths == Ordered({p \in HomePaths :
                            plan_action(tree, revTree, target, current, p) # "none"})
    IN [i \in 1..Len(paths) |->
            [action |-> plan_action(tree, revTree, target, current, paths[i]),
             path |-> paths[i]]]

(***************************************************************************)
(* generations.rs: the journal file is a sequence of written chunks, a     *)
(* JSON line or the newline that writeln! puts after it.                   *)
(***************************************************************************)
\* (timestamp, host, user and config_hash of an entry are left out)
JsonChunk(rev, message) == [chunk |-> "json", rev |-> rev, message |-> message]
NewlineChunk == [chunk |-> "nl", rev |-> "", message |-> ""]

\* the journal opened with truncate instead of append
write_line_truncating(file, entry) == <<entry>>

\* the JSON line written twice
write_line_twice(file, entry) == file \o <<entry, NewlineChunk, entry>>

\* append_generation: OpenOptions create + append, writeln!(file, "{line}")
\* is two writes at the end of the file, the line and then the newline
write_line(file, entry) == file \o <<entry>>
write_newline(file) == file \o <<NewlineChunk>>

\* BufReader::lines over the chunks: the sequence of lines, each a sequence of
\* JSON chunks
RECURSIVE SplitLines(_, _, _)
SplitLines(file, cur, acc) ==
    IF file = <<>> THEN (IF cur = <<>> THEN acc ELSE Append(acc, cur))
    ELSE IF Head(file).chunk = "nl" THEN SplitLines(Tail(file), <<>>, Append(acc, cur))
    ELSE SplitLines(Tail(file), Append(cur, Head(file)), acc)

\* read_generations: blank lines skipped, one entry per line, file order;
\* a line that is not one JSON object is a parse error
read_generations(file) ==
    LET lines == SelectSeq(SplitLines(file, <<>>, <<>>), LAMBDA l : l # <<>>)
    IN IF \E i \in 1..Len(lines) : Len(lines[i]) # 1
       THEN [ok |-> FALSE, entries |-> <<>>]
       ELSE [ok |-> TRUE, entries |-> [i \in 1..Len(lines) |-> lines[i][1]]]


(***************************************************************************)
(* deploy.rs backup phase.  A backup directory maps home-relative paths to *)
(* copies; BackupRoot stands for {state_dir}/backups/{ts}.                 *)
(***************************************************************************)
BackupRoot == <<"s", "b">>
EmptyBackup == [p \in HomePaths |-> Absent]

\* fs::copy / fs::write open the destination with create + truncate and so
\* write through a symlink that is already there
write_through(b, tree, rel, node) ==
    IF b[rel].kind # "symlink"
    THEN [b |-> [b EXCEPT ![rel] = node], tree |-> tree]
    ELSE LET t == b[rel].data
             dest == WalkComponents(
                        IF TargetAbs(t) THEN <<>> ELSE Parent(BackupRoot \o PathComps(rel)),
                        TargetComps(t))
         IN IF \E q \in HomePaths : BackupRoot \o PathComps(q) = dest
            THEN LET q == CHOOSE x \in HomePaths : BackupRoot \o PathComps(x) = dest
                 IN IF b[q].kind \in {"absent", "file"}
                    THEN [b |-> [b EXCEPT ![q] = node], tree |-> tree]
                    ELSE [b |-> b, tree |-> tree]
            ELSE IF \E q \in HomePaths : Join(q) = dest
            THEN LET q == CHOOSE x \in HomePaths : Join(x) = dest
                 IN IF tree[q].kind \in {"absent", "file"}
                    THEN [b |-> b, tree |-> [tree EXCEPT ![q] = node]]
                    ELSE [b |-> b, tree |-> tree]
            ELSE [b |-> b, tree |-> tree]

RECURSIVE backup_seq(_, _, _)
backup_seq(b, tree, rels) ==
    IF rels = <<>> THEN [b |-> b, tree |-> tree]
    ELSE LET rel == Head(rels)
             src == tree[rel]
             r == CASE src.kind = "symlink" ->
                         \* let _ = symlink(target, dest): fails when dest exists
                         IF b[rel].kind = "absent"
                         THEN [b |-> [b EXCEPT ![rel] = src], tree |-> tree]
                         ELSE [b |-> b, tree |-> tree]
                    [] src.kind = "file" -> write_through(b, tree, rel, src)
                    [] OTHER -> [b |-> b, tree |-> tree]
         IN backup_seq(r.b, r.tree, Tail(rels))

\* backup_current
backup_current(b, tree, current) == backup_seq(b, tree, Ordered(current))

\* backup_secrets with the default policy (encrypt); [b, tree, ok]
backup_secrets(b, tree, secretsEnabled) ==
    IF ~secretsEnabled THEN [b |-> b, tree |-> tree, ok |-> TRUE]
    ELSE LET rule == CHOOSE r \in SecretRules : TRUE
         IN IF ~Exists(tree, rule.path) THEN [b |-> b, tree |-> tree, ok |-> TRUE]
            ELSE IF tree[rule.path].kind = "dir"
                 \* fs::read of a directory fails and the ? returns
                 THEN [b |-> b, tree |-> tree, ok |-> FALSE]
            ELSE LET plain == IF tree[rule.path].kind = "file"
                              THEN tree[rule.path].data ELSE "linked"
                     w == write_through(b, tree, rule.ciphertext,
                                        RegFile(Encrypt(plain), FALSE))
                 IN [b |-> w.b, tree |-> w.tree, ok |-> TRUE]

(***************************************************************************)
(* Time.  Instants count units of 200 ms from the daemon's start; NoInstant *)
(* stands for Option::None.                                                *)
(***************************************************************************)
NoInstant == -1

\* Instant::duration_since saturates at zero
duration_since(t, earlier) == IF t < earlier THEN 0 ELSE t - earlier

MinOf(a, b) == IF a <= b THEN a ELSE b

(***************************************************************************)
(* debounce.rs Debounce.                                                   *)
(***************************************************************************)
NewDebounce(w) == [window |-> w, last_event |-> NoInstant, pending |-> {}]

\* the daemon's window: watch.debounce_ms = 200, one unit of the clock
DebounceWindow == 1

push(d, value, t) == [d EXCEPT !.last_event = t, !.pending = @ \cup {value}]

\* push of every value of a set at the same instant
push_all(d, values, t) == IF values = {} THEN d ELSE [d EXCEPT !.last_event = t,
                                                             !.pending = @ \cup values]

\* is_due comparing with > instead of >=
is_due_late(d, t) ==
    /\ d.last_event # NoInstant
    /\ duration_since(t, d.last_event) > d.window

is_due(d, t) ==
    /\ d.last_event # NoInstant
    /\ duration_since(t, d.last_event) >= d.window

\* the elements of a Vec
ToSet(seq) == {seq[i] : i \in 1..Len(seq)}

\* drain forgetting to reset last_event
drain_keeps_last_event(d) == [items |-> Ordered(d.pending),
                              d |-> [d EXCEPT !.pending = {}]]

\* drain: the items (the BTreeSet iterated, ascending), and the queue it leaves
drain(d) == [items |-> Ordered(d.pending),
             d |-> [d EXCEPT !.pending = {}, !.last_event = NoInstant]]

is_empty(d) == d.pending = {}

\* Debounce::clear, called by the main loop
clear(d) == [d EXCEPT !.pending = {}, !.last_event = NoInstant]

(***************************************************************************)
(* inhibit.rs: the marker file.  expires_at is a wall-clock reading.       *)
(***************************************************************************)
NoMarker == [present |-> FALSE, expires_at |-> 0, parses |-> TRUE]

\* InhibitMarker::new + write_inhibit
write_inhibit(ttl, wallNow) ==
    [present |-> TRUE, expires_at |-> wallNow + ttl, parses |-> TRUE]

\* the file as fs::write leaves it between its open (create + truncate) and
\* its write: there, and not the JSON of a marker
TruncatedMarker == [present |-> TRUE, expires_at |-> 0, parses |-> FALSE]

\* read_inhibit: "none", "some" or, when the contents do not parse, "error"
read_inhibit(m) ==
    IF ~m.present THEN "none" ELSE IF ~m.parses THEN "error" ELSE "some"

\* InhibitMarker::is_expired
is_expired(m, wallNow) == wallNow >= m.expires_at

\* active_inhibit: an expired marker is removed; [file, active, err], err
\* when read_inhibit returned its error
active_inhibit(m, wallNow) ==
    CASE read_inhibit(m) = "none" -> [file |-> m, active |-> FALSE, err |-> FALSE]
      [] read_inhibit(m) = "error" -> [file |-> m, active |-> FALSE, err |-> TRUE]
      [] OTHER ->
            IF is_expired(m, wallNow)
            THEN [file |-> NoMarker, active |-> FALSE, err |-> FALSE]
            ELSE [file |-> m, active |-> TRUE, err |-> FALSE]

(***************************************************************************)
(* daemon.rs Backoff, in units of 200 ms.                                  *)
(***************************************************************************)
BackoffStart == 1       \* Duration::from_millis(200)
BackoffMax == 50        \* Duration::from_secs(10)
InhibitCheckEvery == 5  \* Duration::from_secs(1)

NewBackoff == [current |-> BackoffStart, until |-> NoInstant]

backoff_ready(b, t) == b.until = NoInstant \/ t >= b.until

backoff_fail(b, t) ==
    LET next == MinOf(b.current + b.current, BackoffMax)
    IN [current |-> next, until |-> t + next]

\* Backoff::reset
backoff_reset(b) == [b EXCEPT !.current = BackoffStart, !.until = NoInstant]

\* no call of fail since new or reset
NoFails == [k |-> 0, at |-> NoInstant]

(***************************************************************************)
(* watch.rs: how the daemon classifies the path of an event.               *)
(***************************************************************************)
EventPaths == {"c/f", "c/l", "c/s"}

\* watch.auto_add_new and the paths its allowlist matches
AutoAddNew == TRUE
AllowlistPaths == {"c/l"}

\* str::ends_with over the paths above
ends_with(p, suffix) == suffix = ".age" /\ p \in {"c/s.age", "c/k.age"}

\* SecretsManager::from_config of the configuration the daemon runs with
SecretsManager(cfgSecrets) ==
    [enabled |-> cfgSecrets, sidecar_suffix |-> ".age", rules |-> SecretRules]

\* SecretsManager::is_ciphertext_path: the path ends with the sidecar suffix
is_ciphertext_path(secrets, p) == ends_with(p, secrets.sidecar_suffix)

\* SecretsManager::is_secret_plaintext
is_secret_plaintext(secrets, p) == \E r \in secrets.rules : r.path = p

\* ManagedSet::from_config(..).is_managed: the ignore patterns are those
\* apply_secrets_defaults left in the configuration
managed_is_managed(secrets, p) ==
    /\ MatchesRoot(p)
    /\ p \notin (IF secrets.enabled THEN {r.path : r \in secrets.rules} ELSE {})

decide_watch_action(secrets, p) ==
    IF is_ciphertext_path(secrets, p) THEN "ignore"
    ELSE IF is_secret_plaintext(secrets, p) THEN "secret_plaintext"
    ELSE IF ~managed_is_managed(secrets, p) THEN "ignore"
    ELSE IF AutoAddNew /\ p \in AllowlistPaths THEN "managed_auto_add"
    ELSE "managed"

\* daemon.rs handle_event for one path at instant t; q is the record of the
\* three queues and force_flush
\* handle_event with a secret plaintext pushed like a managed path
handle_event_plaintext_managed(cfgSecrets, q, p, t) ==
    LET action == decide_watch_action(SecretsManager(cfgSecrets), p)
    IN CASE action = "ignore" -> q
         [] action \in {"secret_plaintext", "managed"} ->
                [q EXCEPT !.debouncer = push(@, p, t)]
         [] action = "managed_auto_add" ->
                [q EXCEPT !.debouncer = push(@, p, t),
                          !.auto_add_queue = @ \cup {p},
                          !.force_flush = TRUE]

handle_event(cfgSecrets, q, p, t) ==
    LET action == decide_watch_action(SecretsManager(cfgSecrets), p)
    IN CASE action = "ignore" -> q
         [] action = "secret_plaintext" ->
                [q EXCEPT !.secrets_debouncer = push(@, p, t)]
         [] action = "managed" ->
                [q EXCEPT !.debouncer = push(@, p, t)]
         [] action = "managed_auto_add" ->
                [q EXCEPT !.debouncer = push(@, p, t),
                          !.auto_add_queue = @ \cup {p},
                          !.force_flush = TRUE]

\* requeue that forgets the paths waiting for the forced add
requeue_drops_auto_add(q, managed, secrets, auto_add, t) ==
    [q EXCEPT !.debouncer = push_all(@, managed, t),
              !.secrets_debouncer = push_all(@, secrets, t)]

\* daemon.rs requeue
requeue(q, managed, secrets, auto_add, t) ==
    [q EXCEPT !.debouncer = push_all(@, managed, t),
              !.secrets_debouncer = push_all(@, secrets, t),
              !.auto_add_queue = @ \cup auto_add]

\* the queues cleared on a pause or at the gate
clear_queues(q) ==
    [q EXCEPT !.debouncer = clear(@), !.secrets_debouncer = clear(@),
              !.auto_add_queue = {}]

\* try_lock_exclusive taken to succeed whatever it returns
try_acquire_lock_unchecked(holders) == TRUE

\* daemon.rs try_acquire_lock: try_lock_exclusive succeeds when no process
\* holds the flock
try_acquire_lock(holders) == holders = {}

NewShared == [inhibited |-> FALSE, last_flush_at |-> NoInstant, total_flushes |-> 0]
(***************************************************************************)
(* snapshot (main.rs run_snapshot).  An index entry is the line that       *)
(* git status --porcelain=v2 prints for the path: its record type and its  *)
(* XY codes; a path with nothing to report has no line.                    *)
(***************************************************************************)
SnapPaths == {"c/f", "c/s"}

NoLine == [kind |-> "none", x |-> ".", y |-> "."]
StatusLine(kind, x, y) == [kind |-> kind, x |-> x, y |-> y]

IndexEntries ==
    {NoLine, StatusLine("1", "A", "."), StatusLine("1", "M", "."), StatusLine("1", ".", "M"),
     StatusLine("1", "A", "M"), StatusLine("1", "D", "."), StatusLine("2", "R", "."),
     StatusLine("u", "U", "U"), StatusLine("?", "?", "?")}

\* git/cli.rs status_porcelain limited to paths, then parse_status_entry of
\* every line: the FileStatus values
status_porcelain(index, paths) ==
    {[path |-> p,
      index_status |-> IF index[p].kind = "?" THEN "?" ELSE index[p].x,
      worktree_status |-> IF index[p].kind = "?" THEN "?" ELSE index[p].y] :
        p \in {q \in paths \cap SnapPaths : index[q].kind \in {"1", "2", "?"}}}

\* guard_snapshot_secrets reading the worktree code
guard_snapshot_secrets_worktree(secrets, index) ==
    \/ ~secrets.enabled \/ secrets.rules = {}
    \/ \A status \in status_porcelain(index, {r.path : r \in secrets.rules}) :
          is_secret_plaintext(secrets, status.path)
              => status.worktree_status \in {".", "?", "!"}

\* main.rs guard_snapshot_secrets: TRUE for Ok
guard_snapshot_secrets(secrets, index) ==
    \/ ~secrets.enabled \/ secrets.rules = {}
    \/ \A status \in status_porcelain(index, {r.path : r \in secrets.rules}) :
          is_secret_plaintext(secrets, status.path)
              => status.index_status \in {".", "?", "!"}

\* SnapshotConfig.auto_message_template of the default configuration
AutoMessageTemplate == "none"

\* run_snapshot lines 430-440: the message, "error" for an Err
snapshot_message(message, auto) ==
    IF auto
    THEN IF message # "none" THEN "error"
         ELSE IF AutoMessageTemplate = "none" THEN "error" ELSE AutoMessageTemplate
    ELSE IF message = "none" THEN "error" ELSE message

\* git commit: refused with unmerged entries or with nothing staged;
\* otherwise the staged half of every entry becomes the commit
git_commit(index) ==
    LET stagedPaths == {p \in SnapPaths : index[p].kind \in {"1", "2"} /\ index[p].x # "."}
        ok == stagedPaths # {} /\ \A p \in SnapPaths : index[p].kind # "u"
    IN [ok |-> ok,
        commit |-> stagedPaths,
        index |-> IF ~ok THEN index
                  ELSE [p \in SnapPaths |->
                          IF index[p].kind \in {"1", "2"}
                          THEN IF index[p].y = "." THEN NoLine
                               ELSE StatusLine("1", ".", index[p].y)
                          ELSE index[p]]]

NoSnap == [index |-> [p \in SnapPaths |-> NoLine], history |-> <<>>,
           last |-> [ran |-> FALSE, ok |-> FALSE, plaintext_staged |-> FALSE,
                     before |-> <<>>]]

NoWatch == [secrets |-> SecretsManager(FALSE), rel_path |-> "", action |-> "none"]
NoCalls == [log |-> <<>>, out |-> <<>>, drained |-> FALSE]
NoDrained == [managed |-> {}, secrets |-> {}, auto_add |-> {},
              now |-> NoInstant, loop_now |-> NoInstant]
\* the CLI operations that can run at the same time, each in its own guard
Guards == {"g1", "g2"}

\* the processes that connect to the daemon's socket
IpcClients == {"a", "b"}

\* the configuration file as first loaded: its version, whether
\* DaemonContext::load accepts it, whether its roots can be watched
FirstConfig == [ver |-> 0, valid |-> TRUE, watchable |-> TRUE]

\* run_daemon_foreground lines 134-164: ctx loaded, the socket bound, the
\* watcher attached, nobody connected.  A response channel (the `respond`
\* of a ControlMessage) is "none" before it is made, "waiting" while the
\* server thread waits on it, "ok" or "err" once a result was sent and
\* "closed" when its sender was dropped without a send.
NewCtl ==
    [config |-> FirstConfig, ctx |-> 0, watcher |-> 0, watch_roots |-> 0,
     last_error |-> "none", socket |-> TRUE, alive |-> TRUE,
     backlog |-> <<>>, serving |-> "none",
     req |-> [c \in IpcClients |-> "none"],
     chan |-> [c \in IpcClients |-> "none"],
     resp |-> [c \in IpcClients |-> <<>>]]

\* who sends control messages in the specifications that keep a history
Senders == IpcClients \cup {"sighup"}

\* no history kept
NoHist == [track |-> FALSE, order |-> <<>>, paused_seen |-> {},
           handled |-> [c \in Senders |-> "none"], deadline |-> NoInstant]

\* flush_changes not called
NoFlush == [ran |-> FALSE]

\* active_inhibit not called
NoGc == [pc |-> "idle", marker |-> NoMarker, result |-> "none", removed |-> NoMarker]

(***************************************************************************)
(* State.                                                                  *)
(***************************************************************************)
VARIABLES
    fs,            \* the home tree: HomePaths -> node
    repo,          \* Revs -> (TreePaths -> entry)
    cfgSecrets,    \* secrets.enabled in the configuration file
    ruleMode,      \* SecretRule.mode of the one secret rule, NoMode when unset
    genFile,       \* {state_dir}/generations.jsonl, as written chunks
    backups,       \* {state_dir}/backups/{wall}: HomePaths -> node (the directories
                   \* of earlier seconds are never opened again and are left out)
    lockHolders,   \* the processes holding the flock on {state_dir}/lock
    cli,           \* the CLI processes
    lastDeployed,  \* rev of the deploy that completed last, home untouched since
    genCap,        \* no command is started once the journal holds this many entries
    wall,          \* SystemTime::now()
    now,           \* Instant::now(), in units of 200 ms
    marker,        \* {state_dir}/inhibit.json
    control_rx,    \* mpsc control channel into the main loop
    rx,            \* watcher event channel
    dpc,           \* where the daemon main loop stands
    debouncer,     \* managed_stage queue
    secrets_debouncer,  \* secret_plaintext queue
    auto_add_queue,
    backoff,
    pause_until,
    force_flush,
    last_inhibit_check,
    shared,        \* DaemonShared: inhibited, last_flush_at, total_flushes
    drained,       \* flush_changes locals: the drained lists, its `now`, the loop's `now`
    staged,        \* the paths the latest flush handed to the backend add
    guard,         \* CLI operations wrapped in a DaemonInhibitGuard
    lastPush,      \* instant of the latest push into debouncer since it was last emptied
    snap,          \* the repository that snapshot commits: the index entries, the
                   \* commits made, the outcome of the last snapshot
    watch,         \* a call of decide_watch_action: the SecretsManager, the event
                   \* path, the WatchAction returned
    fails,         \* the calls of one Backoff on its own: how many times fail was
                   \* called since new or reset, and the instant of the latest
    ctl,           \* what reload and shutdown act on and the socket's side of the
                   \* daemon: the configuration file, ctx, the attached watcher, the
                   \* watch roots and last error of the status, the socket file,
                   \* the connections, the server thread and the response channels
    hist,          \* history of the control plane, kept where a specification asks
                   \* for it: the arrival order of what waits in the two channels,
                   \* the paths queued while paused, the main loop's result for
                   \* each relayed request, the deadline of the latest pause that
                   \* was not resumed
    flush,         \* a call of flush_changes on its own: the configuration and
                   \* what it drained, and the backend calls it made
    gc,            \* a call of active_inhibit seen step by step: where it stands,
                   \* the marker read_inhibit returned to it, its result, and the
                   \* file its clear_inhibit removed
    caller         \* a caller of one Debounce on its own: the values it pushed since
                   \* the previous drain, what its latest drain returned, and whether
                   \* that drain was its latest call

deployVars == <<fs, repo, cfgSecrets, ruleMode, genFile, backups, lockHolders, cli, lastDeployed, genCap>>

\* the variables of the calls studied on their own
flushVars == <<flush, gc>>

\* the variables of the specifications of one function on its own
unitVars == <<watch, snap, fails, ctl, hist, flushVars>>

daemonVars == <<now, marker, control_rx, rx, dpc, debouncer, secrets_debouncer,
                auto_add_queue, backoff, pause_until, force_flush, last_inhibit_check,
                shared, drained, staged, guard, lastPush, unitVars, caller>>

vars == <<deployVars, wall, daemonVars>>

CLIs == {"cli1", "cli2"}

NoReport == [missing |-> {}, modified |-> {}, type_mismatch |-> {},
             mode_mismatch |-> {}, unexpected |-> {}]

IdleCli == [pc |-> "idle", op |-> "none", ref |-> "", resolved |-> "",
            target |-> {}, current |-> {}, noBackup |-> FALSE, noSecrets |-> FALSE,
            ok |-> FALSE, stepsOk |-> FALSE, log0 |-> <<>>, steps |-> 0, explicit |-> FALSE,
            rbLog |-> <<>>, strict |-> FALSE,
            fresh |-> FALSE, report |-> NoReport, plan |-> <<>>]

Generations == read_generations(genFile).entries

\* lock.rs acquire_lock: lock_exclusive returns once no other process holds
\* the flock
acquire_lock(holders) == holders = {}

\* a lock File that outlives the function that opened it
release_lock_leaked(holders, p) == holders

\* the lock File dropped when its owner goes out of scope: the flock ends
release_lock(holders, p) == holders \ {p}

(***************************************************************************)
(* main.rs run_deploy / run_rollback / run_verify and deploy.rs            *)
(* deploy_with_options.                                                    *)
(***************************************************************************)
\* run_deploy up to the blocking acquire_lock
CliDeploy(p, ref, noBackup, noSecrets) ==
    /\ cli[p].pc = "idle"
    /\ Len(Generations) < genCap
    /\ cli' = [cli EXCEPT ![p] = [IdleCli EXCEPT !.pc = "start", !.op = "deploy",
                                     !.ref = ref, !.noBackup = noBackup,
                                     !.noSecrets = noSecrets]]
    /\ UNCHANGED <<fs, repo, cfgSecrets, ruleMode, genFile, backups, lockHolders, lastDeployed, genCap, wall>>
    /\ UNCHANGED daemonVars

\* run_rollback indexing generations[len - steps] instead of [len - 1 - steps]
CliRollbackOffByOne(p, to, steps) ==
    /\ cli[p].pc = "idle"
    /\ Len(Generations) < genCap
    /\ LET gens == read_generations(genFile)
           n == Len(gens.entries)
           fail == [IdleCli EXCEPT !.pc = "done", !.op = "rollback", !.steps = steps,
                                   !.explicit = (to # "none"),
                                   !.rbLog = gens.entries, !.log0 = gens.entries]
           go(ref) == [IdleCli EXCEPT !.pc = "start", !.op = "rollback", !.ref = ref,
                                      !.steps = steps, !.explicit = (to # "none"),
                                      !.rbLog = gens.entries]
       IN cli' = [cli EXCEPT ![p] =
                    IF steps = 0 THEN fail
                    ELSE IF to # "none" THEN go(to)
                    ELSE IF ~gens.ok THEN fail
                    ELSE IF n = 0 THEN go(HeadTilde(steps))
                    ELSE IF n <= steps THEN fail
                    ELSE go(gens.entries[n - steps + 1].rev)]
    /\ UNCHANGED <<fs, repo, cfgSecrets, ruleMode, genFile, backups, lockHolders, lastDeployed, genCap, wall>>
    /\ UNCHANGED daemonVars

\* run_rollback falling back to HEAD~steps whenever the log is too short
CliRollbackFallback(p, to, steps) ==
    /\ cli[p].pc = "idle"
    /\ Len(Generations) < genCap
    /\ LET gens == read_generations(genFile)
           n == Len(gens.entries)
           fail == [IdleCli EXCEPT !.pc = "done", !.op = "rollback", !.steps = steps,
                                   !.explicit = (to # "none"),
                                   !.rbLog = gens.entries, !.log0 = gens.entries]
           go(ref) == [IdleCli EXCEPT !.pc = "start", !.op = "rollback", !.ref = ref,
                                      !.steps = steps, !.explicit = (to # "none"),
                                      !.rbLog = gens.entries]
       IN cli' = [cli EXCEPT ![p] =
                    IF steps = 0 THEN fail
                    ELSE IF to # "none" THEN go(to)
                    ELSE IF ~gens.ok THEN fail
                    ELSE IF n <= steps THEN go(HeadTilde(steps))
                    ELSE go(gens.entries[n - steps].rev)]
    /\ UNCHANGED <<fs, repo, cfgSecrets, ruleMode, genFile, backups, lockHolders, lastDeployed, genCap, wall>>
    /\ UNCHANGED daemonVars

\* run_rollback up to the blocking acquire_lock: chooses the target
CliRollback(p, to, steps) ==
    /\ cli[p].pc = "idle"
    /\ Len(Generations) < genCap
    /\ LET gens == read_generations(genFile)
           n == Len(gens.entries)
           fail == [IdleCli EXCEPT !.pc = "done", !.op = "rollback", !.steps = steps,
                                   !.explicit = (to # "none"),
                                   !.rbLog = gens.entries, !.log0 = gens.entries]
           go(ref) == [IdleCli EXCEPT !.pc = "start", !.op = "rollback", !.ref = ref,
                                      !.steps = steps, !.explicit = (to # "none"),
                                      !.rbLog = gens.entries]
       IN cli' = [cli EXCEPT ![p] =
                    IF steps = 0 THEN fail
                    ELSE IF to # "none" THEN go(to)
                    ELSE IF ~gens.ok THEN fail
                    ELSE IF n = 0 THEN go(HeadTilde(steps))
                    ELSE IF n <= steps THEN fail
                    ELSE go(gens.entries[n - steps].rev)]
    /\ UNCHANGED <<fs, repo, cfgSecrets, ruleMode, genFile, backups, lockHolders, lastDeployed, genCap, wall>>
    /\ UNCHANGED daemonVars

\* deploy_with_options lines 44-69: lock, resolve, target and current sets
DeployStart(p) ==
    /\ cli[p].pc = "start"
    /\ acquire_lock(lockHolders)
    /\ LET resolved == rev_parse(cli[p].ref)
           enabled == cfgSecrets /\ ~cli[p].noSecrets
       IN IF resolved = "error"
          THEN /\ cli' = [cli EXCEPT ![p].pc = "done", ![p].ok = FALSE,
                                     ![p].log0 = Generations]
               /\ UNCHANGED lockHolders
          ELSE /\ cli' = [cli EXCEPT ![p].pc = "locked", ![p].resolved = resolved,
                            ![p].target = collect_target_paths(cfgSecrets, enabled, repo[resolved]),
                            ![p].current = collect_current_paths(cfgSecrets, enabled, fs),
                            ![p].log0 = Generations]
               /\ lockHolders' = lockHolders \cup {p}
    /\ UNCHANGED <<fs, repo, cfgSecrets, ruleMode, genFile, backups, lastDeployed, genCap, wall>>
    /\ UNCHANGED daemonVars

\* deploy_with_options lines 71-102: backup, apply_target, apply_secrets,
\* delete_missing; an error returns and drops the lock
DeployApply(p) ==
    /\ cli[p].pc = "locked"
    /\ LET c == cli[p]
           enabled == cfgSecrets /\ ~c.noSecrets
           dir0 == backups
           bc == backup_current(dir0, fs, c.current)
           bs == backup_secrets(bc.b, bc.tree, enabled)
           afterBackup == IF c.noBackup THEN [b |-> dir0, tree |-> fs, ok |-> TRUE] ELSE bs
           a == apply_target(afterBackup.tree, repo[c.resolved], c.target)
           s == apply_secrets(a.tree, enabled, repo[c.resolved], ruleMode)
           d == delete_missing(s.tree, c.current, c.target)
           ok == afterBackup.ok /\ a.ok /\ s.ok
       IN /\ backups' = afterBackup.b
          /\ fs' = IF ~afterBackup.ok THEN afterBackup.tree
                   ELSE IF ~a.ok THEN a.tree
                   ELSE IF ~s.ok THEN s.tree
                   ELSE d
          /\ IF ok
             THEN /\ cli' = [cli EXCEPT ![p].pc = "applied", ![p].stepsOk = TRUE]
                  /\ UNCHANGED lockHolders
             ELSE /\ cli' = [cli EXCEPT ![p].pc = "done", ![p].ok = FALSE]
                  /\ lockHolders' = release_lock(lockHolders, p)
    /\ lastDeployed' = "none"
    /\ UNCHANGED <<repo, cfgSecrets, ruleMode, genFile, genCap, wall>>
    /\ UNCHANGED daemonVars

\* deploy_with_options lines 104-115: build the entry, append its JSON line
DeployRecord(p) ==
    /\ cli[p].pc = "applied"
    /\ genFile' = write_line(genFile, JsonChunk(cli[p].resolved, "None"))
    /\ cli' = [cli EXCEPT ![p].pc = "written"]
    /\ UNCHANGED <<fs, repo, cfgSecrets, ruleMode, backups, lockHolders, lastDeployed, genCap, wall>>
    /\ UNCHANGED daemonVars

\* the newline of writeln!, then line 116: return Ok(entry) and drop the lock
DeployReturn(p) ==
    /\ cli[p].pc = "written"
    /\ genFile' = write_newline(genFile)
    /\ cli' = [cli EXCEPT ![p].pc = "done", ![p].ok = TRUE]
    /\ lockHolders' = release_lock(lockHolders, p)
    /\ lastDeployed' = cli[p].resolved
    /\ UNCHANGED <<fs, repo, cfgSecrets, ruleMode, backups, genCap, wall>>
    /\ UNCHANGED daemonVars

\* run_verify: reads the repository and the home tree, takes no lock
CliVerify(p, ref, strict) ==
    /\ cli[p].pc = "idle"
    /\ LET resolved == rev_parse(ref)
       IN cli' = [cli EXCEPT ![p] =
                    IF resolved = "error"
                    THEN [IdleCli EXCEPT !.pc = "done", !.op = "verify", !.ref = ref]
                    ELSE [IdleCli EXCEPT !.pc = "done", !.op = "verify", !.ref = ref,
                             !.ok = TRUE, !.resolved = resolved, !.strict = strict,
                             !.fresh = (lastDeployed = resolved),
                             !.report = verify(cfgSecrets, fs, repo[resolved], strict)]]
    /\ UNCHANGED <<fs, repo, cfgSecrets, ruleMode, genFile, backups, lockHolders, lastDeployed, genCap, wall>>
    /\ UNCHANGED daemonVars

\* run_plan_deploy waiting for the exclusive lock first
CliPlanLocked(p, ref) ==
    /\ cli[p].pc = "idle"
    /\ acquire_lock(lockHolders)
    /\ LET resolved == rev_parse(ref)
       IN cli' = [cli EXCEPT ![p] =
                    IF resolved = "error"
                    THEN [IdleCli EXCEPT !.pc = "done", !.op = "plan", !.ref = ref]
                    ELSE [IdleCli EXCEPT !.pc = "done", !.op = "plan", !.ref = ref,
                             !.ok = TRUE, !.resolved = resolved,
                             !.plan = plan_deploy(cfgSecrets, fs, repo[resolved])]]
    /\ UNCHANGED <<fs, repo, cfgSecrets, ruleMode, genFile, backups, lockHolders, lastDeployed, genCap, wall>>
    /\ UNCHANGED daemonVars

\* main.rs run_plan_deploy
CliPlan(p, ref) ==
    /\ cli[p].pc = "idle"
    /\ LET resolved == rev_parse(ref)
       IN cli' = [cli EXCEPT ![p] =
                    IF resolved = "error"
                    THEN [IdleCli EXCEPT !.pc = "done", !.op = "plan", !.ref = ref]
                    ELSE [IdleCli EXCEPT !.pc = "done", !.op = "plan", !.ref = ref,
                             !.ok = TRUE, !.resolved = resolved,
                             !.plan = plan_deploy(cfgSecrets, fs, repo[resolved])]]
    /\ UNCHANGED <<fs, repo, cfgSecrets, ruleMode, genFile, backups, lockHolders, lastDeployed, genCap, wall>>
    /\ UNCHANGED daemonVars

\* the process exits; the next command is a new process
CliExit(p) ==
    /\ cli[p].pc = "done"
    /\ cli' = [cli EXCEPT ![p] = IdleCli]
    /\ UNCHANGED <<fs, repo, cfgSecrets, ruleMode, genFile, backups, lockHolders, lastDeployed, genCap, wall>>
    /\ UNCHANGED daemonVars


(***************************************************************************)
(* Initial states.                                                         *)
(***************************************************************************)
\* the head commit
TreeB == [p \in TreePaths |->
            CASE p = "c/f" -> FileEntry("100644", "v2")
              [] p = "c/l" -> NoEntry
              [] p = "c/s.age" -> FileEntry("100644", "enc:top")
              [] p = "z" -> FileEntry("100644", "zz")]

\* the trees explored for the first commit: every mix of entries at the two
\* managed paths with a good sidecar, and the sidecar missing or damaged
TreeOf(f, l, c) ==
    [p \in TreePaths |->
        CASE p = "c/f" -> f
          [] p = "c/l" -> l
          [] p = "c/s.age" -> c
          [] p = "z" -> NoEntry]

TreesA ==
    {TreeOf(f, l, FileEntry("100644", "enc:top")) :
        f \in {NoEntry, FileEntry("100644", "v1"), FileEntry("100755", "v1"),
               FileEntry("120000", "../z")},
        l \in {NoEntry, FileEntry("100755", "v3")} \cup {FileEntry("120000", t) : t \in Targets}}
    \cup {TreeOf(FileEntry("100644", "v1"), NoEntry, c) :
            c \in {NoEntry, FileEntry("100644", "junk")}}

\* the home trees explored as the starting point
HomeOf(f, l, s) ==
    [p \in HomePaths |->
        CASE p = "c/f" -> f
          [] p = "c/l" -> l
          [] p = "c/s" -> s
          [] p = "c/s.age" -> Absent
          [] p = "z" -> RegFile("zz0", FALSE)]

InitHomes ==
    {HomeOf(f, l, Absent) :
        f \in {Absent, RegFile("v0", TRUE), Dir, Symlink("/h/u/c/l")},
        l \in {Absent, Symlink("/e/p"), Dir}}
    \cup {HomeOf(Absent, Absent, Dir)}

DaemonIdle ==
    /\ now = 0
    /\ marker = NoMarker
    /\ control_rx = <<>>
    /\ rx = <<>>
    /\ dpc = "off"
    /\ debouncer = NewDebounce(DebounceWindow)
    /\ secrets_debouncer = NewDebounce(DebounceWindow)
    /\ auto_add_queue = {}
    /\ backoff = NewBackoff
    /\ pause_until = NoInstant
    /\ force_flush = FALSE
    /\ last_inhibit_check = 0
    /\ shared = NewShared
    /\ drained = NoDrained
    /\ staged = {}
    /\ guard = [g \in Guards |-> [pc |-> "idle", ttl |-> 0]]
    /\ lastPush = NoInstant
    /\ caller = NoCalls
    /\ fails = NoFails
    /\ ctl = NewCtl
    /\ hist = NoHist

DaemonOff ==
    /\ DaemonIdle
    /\ flush = NoFlush
    /\ gc = NoGc
    /\ watch = NoWatch
    /\ snap = NoSnap

InitDeploy ==
    /\ fs \in InitHomes
    /\ repo \in {[r \in Revs |-> IF r = "A" THEN a ELSE TreeB] : a \in TreesA}
    /\ cfgSecrets \in BOOLEAN
    /\ ruleMode = NoMode
    /\ genFile = <<>>
    /\ backups = EmptyBackup
    /\ lockHolders = {}
    /\ cli = [p \in CLIs |-> IdleCli]
    /\ lastDeployed = "none"
    /\ genCap = MaxDeploys
    /\ wall = 0
    /\ DaemonOff

\* the clock moves on between two commands: the next backup directory is new
WallTick ==
    /\ wall < MaxWall
    /\ \A p \in CLIs : cli[p].pc = "idle"
    /\ backups # EmptyBackup
    /\ wall' = wall + 1
    /\ backups' = EmptyBackup
    /\ UNCHANGED <<fs, repo, cfgSecrets, ruleMode, genFile, lockHolders, cli, lastDeployed, genCap>>
    /\ UNCHANGED daemonVars

DeployCLIs == {"cli1"}

NextDeploy ==
    \/ \E p \in DeployCLIs, ref \in {"HEAD", "HEAD~1", "HEAD~2"}, nb \in BOOLEAN, ns \in BOOLEAN :
          CliDeploy(p, ref, nb, ns)
    \/ \E p \in DeployCLIs : DeployStart(p)
    \/ \E p \in DeployCLIs : DeployApply(p)
    \/ \E p \in DeployCLIs : DeployRecord(p)
    \/ \E p \in DeployCLIs : DeployReturn(p)
    \/ \E p \in DeployCLIs, ref \in {"HEAD", "HEAD~1", "HEAD~2"}, strict \in BOOLEAN :
          CliVerify(p, ref, strict)
    \/ \E p \in DeployCLIs : CliExit(p)
    \/ WallTick

\* deploy and verify of an arbitrary first commit over an arbitrary home tree
SpecDeploy == InitDeploy /\ [][NextDeploy]_vars

(***************************************************************************)
(* Deploys and rollbacks of two fixed commits by two CLI processes.        *)
(***************************************************************************)
TreeA == TreeOf(FileEntry("100755", "v1"), FileEntry("120000", "./f"),
                FileEntry("100644", "enc:top"))

InitRollback ==
    /\ fs \in {HomeOf(f, Absent, Absent) : f \in {Absent, RegFile("v0", FALSE)}}
    /\ repo = [r \in Revs |-> IF r = "A" THEN TreeA ELSE TreeB]
    /\ cfgSecrets \in BOOLEAN
    /\ ruleMode = NoMode
    /\ genFile = <<>>
    /\ backups = EmptyBackup
    /\ lockHolders = {}
    /\ cli = [p \in CLIs |-> IdleCli]
    /\ lastDeployed = "none"
    /\ genCap = MaxGens
    /\ wall = 0
    /\ DaemonOff

NextRollback ==
    \/ \E p \in CLIs, ref \in {"HEAD", "HEAD~1", "HEAD~2"} : CliDeploy(p, ref, FALSE, FALSE)
    \/ \E p \in CLIs, to \in {"none", "A"}, steps \in 0..MaxSteps : CliRollback(p, to, steps)
    \/ \E p \in CLIs : DeployStart(p)
    \/ \E p \in CLIs : DeployApply(p)
    \/ \E p \in CLIs : DeployRecord(p)
    \/ \E p \in CLIs : DeployReturn(p)
    \/ \E p \in CLIs : CliExit(p)

SpecRollback == InitRollback /\ [][NextRollback]_vars

(***************************************************************************)
(* The watch daemon: daemon.rs run_daemon_foreground and flush_changes,    *)
(* the IPC clients, and CLI operations wrapped in a DaemonInhibitGuard.    *)
(* Under SpecDaemon both clocks count units of 200 ms.                     *)
(***************************************************************************)
MaxClock == 2       \* the wall clock runs 0..MaxClock under SpecDaemon
MaxTtl == 1         \* pause and marker ttls explored: 1..MaxTtl
MaxEvents == 1      \* watcher events waiting in the channel
MaxFlushes == 2     \* successful flushes explored (total_flushes)
DaemonDeploys == 1  \* deploys explored next to the daemon

Queues == [debouncer |-> debouncer, secrets_debouncer |-> secrets_debouncer,
           auto_add_queue |-> auto_add_queue, force_flush |-> force_flush]

\* the answer sent back through `respond` releases the waiting client
respond_if_needed(gs, from) ==
    IF from \notin Guards THEN gs
    ELSE [gs EXCEPT ![from].pc = CASE @ = "pausing" -> "held"
                                   [] @ = "resuming" -> "idle"
                                   [] OTHER -> @]

\* history: what the main loop made of the latest message of a sender
noted(h, from, v) == IF from \in Senders THEN [h EXCEPT ![from] = v] ELSE h

\* respond_if_needed for a request relayed by the server thread: the
\* result goes into the channel the thread waits on
send_result(chan, from, result) ==
    IF from \in IpcClients THEN [chan EXCEPT ![from] = result] ELSE chan

\* a `respond` sender dropped with nothing sent: the waiting recv fails
drop_sender(chan, from) ==
    IF from \in IpcClients /\ chan[from] = "waiting"
    THEN [chan EXCEPT ![from] = "closed"] ELSE chan

\* lines 210-231: DaemonContext::load of the configuration file, then
\* setup_watcher for the new context; c is ctl
reload(c) ==
    IF ~c.config.valid
    THEN [ctx |-> c.ctx, watcher |-> c.watcher, watch_roots |-> c.watch_roots,
          new_rx |-> FALSE, ok |-> FALSE]
    ELSE IF ~c.config.watchable
    THEN [ctx |-> c.config.ver, watcher |-> c.watcher, watch_roots |-> c.watch_roots,
          new_rx |-> FALSE, ok |-> FALSE]
    ELSE [ctx |-> c.config.ver, watcher |-> c.config.ver,
          watch_roots |-> c.config.ver, new_rx |-> TRUE, ok |-> TRUE]

\* one ControlMessage (lines 169-201); s holds the queues, pause_until,
\* the inhibited flag of the status, the guards, the reload locals, the
\* response channels, and whether the loop has returned
apply_control(s, msg, t) ==
    CASE msg.cmd = "pause" ->
            [s EXCEPT !.pause_until = t + msg.ttl,
                      !.deadline = t + msg.ttl,
                      !.q = clear_queues(@),
                      !.inhibited = TRUE,
                      !.guard = respond_if_needed(@, msg.from),
                      !.chan = send_result(@, msg.from, "ok"),
                      !.handled = noted(@, msg.from, "ok")]
      [] msg.cmd = "resume" ->
            [s EXCEPT !.pause_until = NoInstant,
                      !.deadline = NoInstant,
                      !.inhibited = FALSE,
                      !.guard = respond_if_needed(@, msg.from),
                      !.chan = send_result(@, msg.from, "ok"),
                      !.handled = noted(@, msg.from, "ok")]
      [] msg.cmd = "flush" ->
            [s EXCEPT !.q.force_flush = TRUE,
                      !.guard = respond_if_needed(@, msg.from),
                      !.chan = send_result(@, msg.from, "ok"),
                      !.handled = noted(@, msg.from, "ok")]
      [] msg.cmd = "reload" ->
            [s EXCEPT !.reload_requested = TRUE,
                      !.chan = drop_sender(@, s.reload_response),
                      !.reload_response = msg.from,
                      !.handled = noted(@, msg.from, "reload")]
      [] msg.cmd = "shutdown" ->
            [s EXCEPT !.chan = drop_sender(send_result(@, msg.from, "ok"),
                                           s.reload_response),
                      !.returned = TRUE,
                      !.handled = noted(@, msg.from, "ok")]

\* while let Ok(msg) = control_rx.try_recv(); once Shutdown has returned
\* from the function the messages still in control_rx are dropped with it
RECURSIVE drain_control(_, _, _)
drain_control(s, msgs, t) ==
    IF msgs = <<>> THEN s
    ELSE IF s.returned
    THEN drain_control([s EXCEPT !.chan = drop_sender(@, Head(msgs).from)], Tail(msgs), t)
    ELSE drain_control(apply_control(s, Head(msgs), t), Tail(msgs), t)

\* a pause that stays until it is resumed
expire_pause_never(s, t) == s

\* lines 204-208: the pause deadline has passed
expire_pause(s, t) ==
    IF ~s.returned /\ s.pause_until # NoInstant /\ t >= s.pause_until
    THEN [s EXCEPT !.pause_until = NoInstant, !.inhibited = FALSE]
    ELSE s

\* one iteration of the main loop, up to `continue` or, inside flush_changes,
\* up to the lock being held (lines 167-312 and 370-389)
\* (each intermediate value is bound once, as the one element of a set)
DaemonLoop ==
    /\ dpc = "loop"
    \* lines 167-208: the control messages, then the pause deadline
    /\ \E s2 \in {expire_pause(drain_control([q |-> Queues, pause_until |-> pause_until,
                                              inhibited |-> shared.inhibited,
                                              guard |-> guard,
                                              reload_requested |-> FALSE,
                                              reload_response |-> "none",
                                              returned |-> FALSE,
                                              chan |-> ctl.chan,
                                              handled |-> hist.handled,
                                              deadline |-> hist.deadline],
                                             control_rx, now), now)} :
       \* lines 210-231: the reload asked for by the messages just read
       \E rl \in {IF s2.reload_requested /\ ~s2.returned THEN reload(ctl)
                  ELSE [ctx |-> ctl.ctx, watcher |-> ctl.watcher,
                        watch_roots |-> ctl.watch_roots, new_rx |-> FALSE, ok |-> TRUE]} :
       \E reloaded \in {s2.reload_requested /\ ~s2.returned} :
       \E chan2 \in {IF reloaded
                     THEN send_result(s2.chan, s2.reload_response,
                                      IF rl.ok THEN "ok" ELSE "err")
                     ELSE s2.chan} :
       \* the events the loop can still receive: none once it has returned,
       \* none of the old channel's once `rx = new_rx`
       \E rxNow \in {IF s2.returned \/ rl.new_rx THEN <<>> ELSE rx} :
       \* lines 233-251: recv_timeout, one event or the timeout
       \E q3 \in {IF rxNow # <<>> THEN handle_event(cfgSecrets, s2.q, Head(rxNow), now)
                  ELSE s2.q} :
       \* lines 259-270: the periodic look at the marker
       \E check \in {~s2.returned
                       /\ duration_since(now, last_inhibit_check) >= InhibitCheckEvery} :
       \E a1 \in {active_inhibit(marker, wall)} :
       \E m1 \in {IF check THEN a1.file ELSE marker} :
       \E inh1 \in {IF check /\ a1.active THEN TRUE
                    ELSE IF check /\ ~a1.err /\ s2.pause_until = NoInstant THEN FALSE
                    ELSE s2.inhibited} :
       \* lines 272-281
       \E proceed \in {/\ ~s2.returned
                       /\ \/ q3.force_flush
                          \/ (is_due(q3.debouncer, now) /\ ~is_empty(q3.debouncer))
                          \/ (is_due(q3.secrets_debouncer, now)
                                /\ ~is_empty(q3.secrets_debouncer))
                       /\ backoff_ready(backoff, now)} :
       \* lines 283-295: the gate; the ? of line 284 returns a read error
       \E a2 \in {active_inhibit(m1, wall)} :
       \* flush_changes lines 376-384
       \E dm \in {drain(q3.debouncer)} :
       \E ds \in {drain(q3.secrets_debouncer)} :
       \E qd \in {[debouncer |-> dm.d, secrets_debouncer |-> ds.d,
                   auto_add_queue |-> {}, force_flush |-> FALSE]} :
       \E outcome \in {IF s2.returned THEN "returned"
                       ELSE IF ~proceed THEN "continue"
                       ELSE IF a2.err THEN "failed"
                       ELSE IF s2.pause_until # NoInstant \/ a2.active THEN "gated"
                       ELSE IF dm.items = <<>> /\ ds.items = <<>> /\ q3.auto_add_queue = {}
                            THEN "flushed"
                       ELSE IF try_acquire_lock(lockHolders) THEN "staging"
                       ELSE "busy"} :
       \E qEnd \in {CASE outcome \in {"continue", "returned"} -> q3
                      [] outcome = "failed" -> [q3 EXCEPT !.force_flush = FALSE]
                      [] outcome = "gated" ->
                            clear_queues([q3 EXCEPT !.force_flush = FALSE])
                      [] outcome = "busy" ->
                            requeue(qd, ToSet(dm.items), ToSet(ds.items),
                                    q3.auto_add_queue, now)
                      [] OTHER -> qd} :
          /\ outcome = "flushed" => (wall < MaxClock /\ shared.total_flushes < MaxFlushes)
          /\ control_rx' = <<>>
          /\ rx' = IF rxNow = <<>> THEN rxNow ELSE Tail(rxNow)
          /\ ctl' = [ctl EXCEPT !.ctx = rl.ctx, !.watcher = rl.watcher,
                                !.watch_roots = rl.watch_roots,
                                !.last_error = IF rl.ok THEN @ ELSE "reload",
                                !.chan = chan2,
                                !.socket = @ /\ ~s2.returned]
          /\ hist' = IF ~hist.track THEN hist
                     ELSE [hist EXCEPT
                             !.order = [i \in 1..Len(rx') |-> "e"],
                             !.paused_seen =
                                IF rxNow = <<>> THEN @
                                ELSE IF s2.pause_until # NoInstant
                                        \/ active_inhibit(marker, wall).active
                                THEN @ \cup {Head(rxNow)}
                                ELSE @ \ {Head(rxNow)},
                             !.deadline = s2.deadline,
                             !.handled = [c \in Senders |->
                                            IF s2.handled[c] # "reload" THEN s2.handled[c]
                                            ELSE IF ~reloaded THEN "dropped"
                                            ELSE IF rl.ok THEN "ok" ELSE "err"]]
          /\ guard' = s2.guard
          /\ pause_until' = s2.pause_until
          /\ last_inhibit_check' = IF check THEN now ELSE last_inhibit_check
          /\ marker' = IF proceed THEN a2.file ELSE m1
          /\ debouncer' = qEnd.debouncer
          /\ secrets_debouncer' = qEnd.secrets_debouncer
          /\ auto_add_queue' = qEnd.auto_add_queue
          /\ force_flush' = qEnd.force_flush
          /\ lastPush' = qEnd.debouncer.last_event
          /\ UNCHANGED <<watch, snap, fails, caller, flushVars>>
          /\ staged' = {}
          /\ backoff' = CASE outcome = "flushed" -> NewBackoff
                          [] outcome = "busy" -> backoff_fail(backoff, now)
                          [] OTHER -> backoff
          \* update_flush_time: the flush took time, the clock reads later
          /\ wall' = IF outcome = "flushed" THEN wall + 1 ELSE wall
          /\ shared' = CASE outcome = "flushed" ->
                               [inhibited |-> inh1, last_flush_at |-> wall + 1,
                                total_flushes |-> shared.total_flushes + 1]
                         [] outcome = "gated" -> [shared EXCEPT !.inhibited = TRUE]
                         [] OTHER -> [shared EXCEPT !.inhibited = inh1]
          /\ IF outcome = "staging"
             THEN /\ dpc' = "staging"
                  /\ lockHolders' = lockHolders \cup {"daemon"}
                  /\ drained' = [managed |-> ToSet(dm.items), secrets |-> ToSet(ds.items),
                                 auto_add |-> q3.auto_add_queue,
                                 now |-> now, loop_now |-> now]
             ELSE /\ dpc' = IF outcome \in {"returned", "failed"} THEN "off" ELSE "loop"
                  /\ UNCHANGED <<lockHolders, drained>>
    /\ UNCHANGED <<fs, repo, cfgSecrets, ruleMode, genFile, backups, cli, lastDeployed, genCap, now>>

\* std::fs::write of a sidecar into the home tree: create + truncate,
\* following a symlink that is there; [tree, ok]
write_home(tree, rel, content) ==
    CASE tree[rel].kind = "dir" -> [tree |-> tree, ok |-> FALSE]
      [] tree[rel].kind = "file" ->
            [tree |-> [tree EXCEPT ![rel].data = content], ok |-> TRUE]
      [] tree[rel].kind = "absent" ->
            [tree |-> [tree EXCEPT ![rel] = RegFile(content, FALSE)], ok |-> TRUE]
      [] OTHER ->
            LET dest == LinkDest(rel, tree[rel].data)
            IN IF \E q \in HomePaths : Join(q) = dest /\ tree[q].kind \in {"absent", "file"}
               THEN LET q == CHOOSE x \in HomePaths : Join(x) = dest
                    IN [tree |-> [tree EXCEPT ![q] = File(content,
                                     IF tree[q].kind = "file" THEN tree[q].mode
                                     ELSE CreateMode)],
                        ok |-> TRUE]
               ELSE [tree |-> tree, ok |-> dest \in OutsideExisting]

\* flush_changes lines 402-442 for the one secret rule: the sidecars written
\* into home; [tree, ok, ciphertext_paths]
write_sidecars(tree, secret_paths) ==
    LET rule == CHOOSE r \in SecretRules : TRUE
    IN IF rule.path \notin secret_paths \/ tree[rule.path].kind \in {"absent", "dir"}
          \/ ~Exists(tree, rule.path)
       THEN [tree |-> tree, ok |-> TRUE, ciphertext_paths |-> {}]
       ELSE LET plain == IF tree[rule.path].kind = "file"
                         THEN tree[rule.path].data ELSE "linked"
                w == write_home(tree, rule.ciphertext, Encrypt(plain))
            IN [tree |-> w.tree, ok |-> w.ok,
                ciphertext_paths |-> IF w.ok THEN {rule.ciphertext} ELSE {}]

\* the rest of flush_changes and lines 303-312: the backend adds under the
\* lock, the lock dropped, requeue on an error, backoff and flush time.
\* failAt names the backend add that fails, if one does.
DaemonStage(failAt) ==
    /\ dpc = "staging"
    /\ \E d \in {drained} :
       \E w \in {write_sidecars(fs, d.secrets)} :
       \E autoErr \in {d.auto_add # {} /\ failAt = "auto_add"} :
       \E secretsRun \in {~autoErr /\ d.secrets # {}} :
       \E secretsErr \in {secretsRun /\ (~cfgSecrets \/ ~w.ok
                              \/ (w.ciphertext_paths # {} /\ failAt = "secrets"))} :
       \E managedRun \in {~autoErr /\ ~secretsErr /\ d.managed # {}} :
       \E managedErr \in {managedRun /\ failAt = "managed"} :
       \E ok \in {~autoErr /\ ~secretsErr /\ ~managedErr} :
       \E qEnd \in {IF ok THEN Queues
                    ELSE requeue(Queues, d.managed, d.secrets, d.auto_add, d.now)} :
          /\ failAt = "auto_add" => d.auto_add # {}
          /\ failAt = "secrets" => (secretsRun /\ cfgSecrets /\ w.ok /\ w.ciphertext_paths # {})
          /\ failAt = "managed" => managedRun
          /\ ok => (wall < MaxClock /\ shared.total_flushes < MaxFlushes)
          /\ staged' = (IF d.auto_add # {} /\ ~autoErr THEN d.auto_add ELSE {})
                          \cup (IF secretsRun /\ ~secretsErr THEN w.ciphertext_paths ELSE {})
                          \cup (IF managedRun /\ ~managedErr THEN d.managed ELSE {})
          /\ fs' = IF secretsRun /\ cfgSecrets THEN w.tree ELSE fs
          /\ lastDeployed' = IF fs' = fs THEN lastDeployed ELSE "none"
          /\ debouncer' = qEnd.debouncer
          /\ secrets_debouncer' = qEnd.secrets_debouncer
          /\ auto_add_queue' = qEnd.auto_add_queue
          /\ lastPush' = qEnd.debouncer.last_event
          /\ UNCHANGED <<unitVars, caller>>
          /\ backoff' = IF ok THEN NewBackoff ELSE backoff_fail(backoff, d.loop_now)
          /\ wall' = IF ok THEN wall + 1 ELSE wall
          /\ shared' = IF ok THEN [shared EXCEPT !.last_flush_at = wall + 1,
                                                 !.total_flushes = @ + 1]
                       ELSE shared
    /\ lockHolders' = release_lock(lockHolders, "daemon")
    /\ drained' = NoDrained
    /\ dpc' = "loop"
    /\ UNCHANGED <<repo, cfgSecrets, ruleMode, genFile, backups, cli, genCap, now, marker,
                   control_rx, rx, pause_until, force_flush, last_inhibit_check, guard>>

\* the monotonic clock moves on
Tick ==
    /\ now < MaxTime
    /\ now' = now + 1
    /\ UNCHANGED <<deployVars, wall, marker, control_rx, rx, dpc, debouncer,
                   secrets_debouncer, auto_add_queue, backoff, pause_until, force_flush,
                   last_inhibit_check, shared, drained, staged, guard, lastPush, unitVars, caller>>

envUnchanged == <<now, rx, dpc, debouncer, secrets_debouncer, auto_add_queue, backoff,
                  pause_until, force_flush, last_inhibit_check, shared, drained, staged,
                  lastPush, unitVars, caller>>

\* the wall clock moves on
ClockTick ==
    /\ wall < MaxClock
    /\ wall' = wall + 1
    /\ UNCHANGED <<deployVars, marker, control_rx, guard, envUnchanged>>

\* the wall clock is set back (SystemTime is not monotonic)
ClockStepBack ==
    /\ wall > 0
    /\ wall' = wall - 1
    /\ UNCHANGED <<deployVars, marker, control_rx, guard, envUnchanged>>

\* one more message waits in a channel: "e" in rx, "c" in control_rx
arrived(h, tag) == IF h.track THEN [h EXCEPT !.order = Append(@, tag)] ELSE h

\* the watcher reports a change of a path under a watched root
FsEvent(p) ==
    /\ dpc # "off"
    /\ Len(rx) < MaxEvents
    /\ rx' = Append(rx, p)
    /\ hist' = arrived(hist, "e")
    /\ UNCHANGED <<deployVars, wall, now, marker, control_rx, dpc, debouncer,
                   secrets_debouncer, auto_add_queue, backoff, pause_until, force_flush,
                   last_inhibit_check, shared, drained, staged, guard, lastPush, caller,
                   watch, snap, fails, ctl, flushVars>>

\* handle_ipc_connection: the server thread forwards one request at a time
\* and waits for the main loop's answer
IpcSend(cmd, ttl) ==
    /\ dpc # "off"
    /\ control_rx = <<>>
    /\ control_rx' = <<[cmd |-> cmd, ttl |-> ttl, from |-> "ipc"]>>
    /\ UNCHANGED <<deployVars, wall, marker, guard, envUnchanged>>

\* what the socket's side of the daemon leaves alone
ctlUnchanged == <<deployVars, wall, now, marker, rx, dpc, debouncer, secrets_debouncer,
                  auto_add_queue, backoff, pause_until, force_flush, last_inhibit_check,
                  shared, drained, staged, guard, lastPush, caller, watch, snap, fails,
                  flushVars>>

\* ipc_request: a client connects to the socket and writes its request
IpcConnect(c, cmd) ==
    /\ ctl.alive /\ ctl.socket
    /\ ctl.req[c] = "none"
    /\ ctl' = [ctl EXCEPT !.req[c] = cmd, !.backlog = Append(@, c)]
    /\ UNCHANGED <<control_rx, hist, ctlUnchanged>>

\* start_ipc_server's one thread takes the next connection of
\* listener.incoming() and runs handle_ipc_connection: ping and status are
\* answered at once, any other command is relayed to the main loop and the
\* thread waits in rx.recv() (a send after the loop returned fails)
IpcServe(c) ==
    /\ ctl.alive /\ ctl.serving = "none"
    /\ ctl.backlog # <<>> /\ Head(ctl.backlog) = c
    /\ IF ctl.req[c] \in {"ping", "status"}
       THEN /\ ctl' = [ctl EXCEPT !.backlog = Tail(@), !.resp[c] = Append(@, "ok")]
            /\ UNCHANGED <<control_rx, hist>>
       ELSE IF dpc = "off"
       THEN /\ ctl' = [ctl EXCEPT !.backlog = Tail(@), !.resp[c] = Append(@, "err")]
            /\ UNCHANGED <<control_rx, hist>>
       ELSE /\ Len(control_rx) < MaxControl
            /\ control_rx' = Append(control_rx,
                                    [cmd |-> ctl.req[c], ttl |-> MaxTtl, from |-> c])
            /\ ctl' = [ctl EXCEPT !.backlog = Tail(@), !.serving = c,
                                  !.chan[c] = "waiting"]
            /\ hist' = arrived(hist, "c")
    /\ UNCHANGED ctlUnchanged

\* the thread's rx.recv() returns (the result sent, or an error when the
\* sender was dropped) and the response is written to the client
IpcRecv ==
    /\ ctl.alive /\ ctl.serving # "none"
    /\ ctl.chan[ctl.serving] \in {"ok", "err", "closed"}
    /\ ctl' = [ctl EXCEPT !.resp[ctl.serving] =
                              Append(@, IF ctl.chan[ctl.serving] = "ok" THEN "ok" ELSE "err"),
                          !.chan[ctl.serving] = "none",
                          !.serving = "none"]
    /\ UNCHANGED <<control_rx, hist, ctlUnchanged>>

\* install_sighup_handler: a hang-up signal asks for a reload
Sighup ==
    /\ dpc # "off"
    /\ Len(control_rx) < MaxControl
    /\ control_rx' = Append(control_rx, [cmd |-> "reload", ttl |-> 0, from |-> "sighup"])
    /\ hist' = arrived(hist, "c")
    /\ UNCHANGED <<ctl, ctlUnchanged>>

\* the user edits the configuration file
EditConfig(valid, watchable) ==
    /\ ctl.config.ver < MaxConfigs
    /\ ctl' = [ctl EXCEPT !.config = [ver |-> @.ver + 1, valid |-> valid,
                                      watchable |-> watchable]]
    /\ UNCHANGED <<control_rx, hist, ctlUnchanged>>

\* run_daemon_foreground has returned and the process ends, its threads
\* with it
ProcessExit ==
    /\ dpc = "off" /\ ~ctl.socket /\ ctl.alive
    /\ ctl' = [ctl EXCEPT !.alive = FALSE]
    /\ UNCHANGED <<control_rx, hist, ctlUnchanged>>

\* DaemonInhibitGuard::new, line 88, inside write_inhibit: fs::write has
\* opened inhibit.json and its contents are still to come
GuardOpen(g) ==
    /\ dpc # "off"
    /\ guard[g].pc = "idle"
    /\ marker' = TruncatedMarker
    /\ guard' = [guard EXCEPT ![g].pc = "opening"]
    /\ UNCHANGED <<deployVars, wall, control_rx, envUnchanged>>

\* DaemonInhibitGuard::new, line 88: write_inhibit
GuardNew(g, ttl) ==
    /\ dpc # "off"
    /\ guard[g].pc \in {"idle", "opening"}
    /\ marker' = write_inhibit(ttl, wall)
    /\ guard' = [guard EXCEPT ![g] = [pc |-> "marked", ttl |-> ttl]]
    /\ UNCHANGED <<deployVars, wall, control_rx, envUnchanged>>

\* DaemonInhibitGuard::new, line 89: ipc_pause, which waits for the answer
GuardPause(g) ==
    /\ guard[g].pc = "marked"
    /\ control_rx = <<>>
    /\ control_rx' = <<[cmd |-> "pause", ttl |-> guard[g].ttl, from |-> g]>>
    /\ guard' = [guard EXCEPT ![g].pc = "pausing"]
    /\ UNCHANGED <<deployVars, wall, marker, envUnchanged>>

\* Drop, line 100: clear_inhibit
GuardDrop(g) ==
    /\ guard[g].pc = "held"
    /\ marker' = NoMarker
    /\ guard' = [guard EXCEPT ![g].pc = "cleared"]
    /\ UNCHANGED <<deployVars, wall, control_rx, envUnchanged>>

\* Drop, line 101: ipc_resume
GuardResume(g) ==
    /\ guard[g].pc = "cleared"
    /\ control_rx = <<>>
    /\ control_rx' = <<[cmd |-> "resume", ttl |-> 0, from |-> g]>>
    /\ guard' = [guard EXCEPT ![g].pc = "resuming"]
    /\ UNCHANGED <<deployVars, wall, marker, envUnchanged>>

DaemonStartWith(l, enabled) ==
    /\ fs = HomeOf(RegFile("v0", FALSE), l, RegFile("top", FALSE))
    /\ repo = [r \in Revs |-> IF r = "A" THEN TreeA ELSE TreeB]
    /\ cfgSecrets = enabled
    /\ ruleMode = NoMode
    /\ genFile = <<>>
    /\ backups = EmptyBackup
    /\ lockHolders = {}
    /\ cli = [p \in CLIs |-> IdleCli]
    /\ lastDeployed = "none"
    /\ genCap = DaemonDeploys
    /\ wall = 0
    /\ now = 0
    /\ marker = NoMarker
    /\ control_rx = <<>>
    /\ rx = <<>>
    /\ dpc = "loop"
    /\ debouncer = NewDebounce(DebounceWindow)
    /\ secrets_debouncer = NewDebounce(DebounceWindow)
    /\ auto_add_queue = {}
    /\ backoff = NewBackoff
    /\ pause_until = NoInstant
    /\ force_flush = FALSE
    /\ last_inhibit_check = 0
    /\ shared = NewShared
    /\ drained = NoDrained
    /\ staged = {}
    /\ guard = [g \in Guards |-> [pc |-> "idle", ttl |-> 0]]
    /\ lastPush = NoInstant
    /\ caller = NoCalls
    /\ fails = NoFails
    /\ flush = NoFlush
    /\ gc = NoGc
    /\ ctl = NewCtl
    /\ watch = NoWatch
    /\ snap = NoSnap

\* the daemon started with secrets enabled
DaemonStart(l) == DaemonStartWith(l, TRUE)

InitDaemon == DaemonStart(Absent) /\ hist = NoHist

\* the daemon with IPC clients and guarded CLI operations
NextDaemon ==
    \/ DaemonLoop
    \/ \E failAt \in {"none", "managed"} : DaemonStage(failAt)
    \/ Tick
    \/ ClockTick
    \/ \E p \in {"c/f", "c/s"} : FsEvent(p)
    \/ \E ttl \in 1..MaxTtl : IpcSend("pause", ttl)
    \/ IpcSend("resume", 0)
    \/ IpcSend("flush", 0)
    \/ \E ttl \in 1..MaxTtl : GuardNew("g1", ttl)
    \/ GuardPause("g1")
    \/ GuardDrop("g1")
    \/ GuardResume("g1")

SpecDaemon == InitDaemon /\ [][NextDaemon]_vars

\* the daemon flushing under a wall clock that can be set back
NextFlush ==
    \/ DaemonLoop
    \/ \E failAt \in {"none", "auto_add", "secrets", "managed"} : DaemonStage(failAt)
    \/ Tick
    \/ ClockTick
    \/ ClockStepBack
    \/ \E p \in EventPaths : FsEvent(p)
    \/ IpcSend("flush", 0)

SpecFlush == InitDaemon /\ [][NextFlush]_vars

\* the daemon next to deploys
NextLock ==
    \/ DaemonLoop
    \/ \E failAt \in {"none", "managed"} : DaemonStage(failAt)
    \/ Tick
    \/ \E p \in {"c/f", "c/s"} : FsEvent(p)
    \/ \E p \in CLIs, ref \in {"HEAD", "HEAD~1", "HEAD~2"} : CliDeploy(p, ref, TRUE, FALSE)
    \/ \E p \in CLIs : DeployStart(p)
    \/ \E p \in CLIs : DeployApply(p)
    \/ \E p \in CLIs : DeployRecord(p)
    \/ \E p \in CLIs : DeployReturn(p)
    \/ \E p \in CLIs : CliExit(p)

\* the home with and without a directory where the first commit has a link
InitLock == (\E l \in {Absent, Dir} : DaemonStart(l)) /\ hist = NoHist

SpecLock == InitLock /\ [][NextLock]_vars

\* the daemon and two guarded CLI operations whose lifetimes may overlap,
\* next to a manual pause; the ttl of the guards and of the pause is longer
\* than the clocks run, so that no marker and no pause expires, and a flush
\* is one forced by a path of the allowlist
GuardTtl == MaxClock + 1

NextGuards ==
    \/ DaemonLoop
    \/ DaemonStage("none")
    \/ FsEvent("c/l")
    \/ IpcSend("pause", GuardTtl)
    \/ \E g \in Guards : GuardNew(g, GuardTtl)
    \/ \E g \in Guards : GuardPause(g)
    \/ \E g \in Guards : GuardDrop(g)
    \/ \E g \in Guards : GuardResume(g)

SpecGuards == InitDaemon /\ [][NextGuards]_vars

\* the daemon next to a guarded CLI operation whose write of the marker
\* file is seen in its two steps, and a client asking for the shutdown
NextMarker ==
    \/ DaemonLoop
    \/ DaemonStage("none")
    \/ Tick
    \/ FsEvent("c/f")
    \/ IpcSend("shutdown", 0)
    \/ GuardOpen("g1")
    \/ GuardNew("g1", MaxTtl)
    \/ GuardPause("g1")
    \/ GuardDrop("g1")
    \/ GuardResume("g1")

SpecMarker == InitDaemon /\ [][NextMarker]_vars

\* active_inhibit, first step: read_inhibit.  With no file or an error it
\* returns at once
ActiveInhibitRead ==
    /\ dpc # "off"
    /\ gc.pc = "idle"
    /\ gc' = CASE read_inhibit(marker) = "some" ->
                     [pc |-> "read", marker |-> marker, result |-> "none",
                      removed |-> NoMarker]
                [] OTHER -> [NoGc EXCEPT !.result = read_inhibit(marker)]
    /\ UNCHANGED <<deployVars, wall, marker, control_rx, guard, now, rx, dpc, debouncer,
                   secrets_debouncer, auto_add_queue, backoff, pause_until, force_flush,
                   last_inhibit_check, shared, drained, staged, lastPush, caller,
                   watch, snap, fails, ctl, hist, flush>>

\* active_inhibit, second step: is_expired of the marker that was read and,
\* for an expired one, clear_inhibit of whatever file is there by now
ActiveInhibitFinish ==
    /\ gc.pc = "read"
    /\ IF is_expired(gc.marker, wall)
       THEN /\ marker' = NoMarker
            /\ gc' = [gc EXCEPT !.pc = "idle", !.result = "none", !.removed = marker]
       ELSE /\ gc' = [gc EXCEPT !.pc = "idle", !.result = "some"]
            /\ UNCHANGED marker
    /\ UNCHANGED <<deployVars, wall, control_rx, guard, now, rx, dpc, debouncer,
                   secrets_debouncer, auto_add_queue, backoff, pause_until, force_flush,
                   last_inhibit_check, shared, drained, staged, lastPush, caller,
                   watch, snap, fails, ctl, hist, flush>>

\* the daemon's look at the marker next to CLI processes that write one,
\* under a wall clock that lets markers expire
NextInhibit ==
    \/ ActiveInhibitRead
    \/ ActiveInhibitFinish
    \/ ClockTick
    \/ \E g \in Guards : GuardOpen(g)
    \/ \E g \in Guards, ttl \in 1..MaxTtl : GuardNew(g, ttl)

SpecInhibit == InitDaemon /\ [][NextInhibit]_vars

\* the daemon's flush failing at each of its steps: the lock held by a
\* deploy, and each of the three backend adds
NextRequeue ==
    \/ DaemonLoop
    \/ \E failAt \in {"none", "auto_add", "secrets", "managed"} : DaemonStage(failAt)
    \/ Tick
    \/ \E p \in EventPaths : FsEvent(p)
    \/ IpcSend("flush", 0)
    \/ CliDeploy("cli1", "HEAD", TRUE, FALSE)
    \/ DeployStart("cli1")
    \/ DeployApply("cli1")
    \/ DeployRecord("cli1")
    \/ DeployReturn("cli1")
    \/ CliExit("cli1")

SpecRequeue == InitDaemon /\ [][NextRequeue]_vars

(***************************************************************************)
(* The daemon with its socket: clients, hang-up signals, edits of the      *)
(* configuration file, reload and shutdown.                                *)
(***************************************************************************)
InitControl == DaemonStart(Absent) /\ hist = [NoHist EXCEPT !.track = TRUE]

\* one client relays a command while the other asks for the status, pings
\* or shuts the daemon down
NextControl ==
    \/ DaemonLoop
    \/ DaemonStage("none")
    \/ FsEvent("c/f")
    \/ Sighup
    \/ \E cmd \in {"pause", "resume", "flush", "reload", "shutdown"} : IpcConnect("a", cmd)
    \/ \E cmd \in {"ping", "status", "shutdown"} : IpcConnect("b", cmd)
    \/ \E c \in IpcClients : IpcServe(c)
    \/ IpcRecv
    \/ ProcessExit

SpecControl == InitControl /\ [][NextControl]_vars

\* pauses that are ended by resume or by their deadline while changes are
\* reported
NextPause ==
    \/ DaemonLoop
    \/ DaemonStage("none")
    \/ Tick
    \/ FsEvent("c/f")
    \/ \E ttl \in 1..MaxTtl : IpcSend("pause", ttl)
    \/ IpcSend("resume", 0)

SpecPause == InitControl /\ [][NextPause]_vars

\* pauses that only their deadline ends.  The clock stops at MaxTime and
\* the flushes are counted up to MaxFlushes, so changes are reported only
\* while a first flush has not succeeded and early enough for the main
\* loop to receive them before the clock's last tick, after which their
\* debounce window has passed.
ExpiryEvent == now < MaxTime - 1 /\ shared.total_flushes = 0 /\ FsEvent("c/f")

ExpiryTick == (rx = <<>> \/ now < MaxTime - 1) /\ Tick

NextExpiry ==
    \/ DaemonLoop
    \/ DaemonStage("none")
    \/ ExpiryTick
    \/ ExpiryEvent
    \/ \E ttl \in 1..MaxTtl : IpcSend("pause", ttl)

\* the main loop wakes at least every 100 ms (recv_timeout, line 233), a
\* flush that holds the lock runs to its end, and time passes
SpecExpiry ==
    /\ InitControl /\ [][NextExpiry]_vars
    /\ WF_vars(DaemonLoop) /\ WF_vars(DaemonStage("none")) /\ WF_vars(ExpiryTick)

\* Instants are compared only through their distance to the clock, so once
\* the clock has reached MaxTime a further 200 ms is the same state with
\* every stored Instant one unit earlier; an Instant the clock has left
\* MaxTime behind compares as one that old.
ShiftInstant(t) == IF t = NoInstant THEN NoInstant ELSE IF t > 0 THEN t - 1 ELSE 0

ClockShift ==
    /\ now = MaxTime
    /\ debouncer' = [debouncer EXCEPT !.last_event = ShiftInstant(@)]
    /\ secrets_debouncer' = [secrets_debouncer EXCEPT !.last_event = ShiftInstant(@)]
    /\ backoff' = [backoff EXCEPT !.until = ShiftInstant(@)]
    /\ pause_until' = ShiftInstant(pause_until)
    /\ last_inhibit_check' = ShiftInstant(last_inhibit_check)
    /\ lastPush' = ShiftInstant(lastPush)
    /\ drained' = [drained EXCEPT !.now = ShiftInstant(@), !.loop_now = ShiftInstant(@)]
    /\ UNCHANGED <<deployVars, wall, now, marker, control_rx, rx, dpc, auto_add_queue,
                   force_flush, shared, staged, guard, unitVars, caller>>

\* time passes without end
Elapse == Tick \/ ClockShift

\* a daemon whose configuration has the secret rule, with secrets enabled
\* or not (DaemonContext::load builds the backend only when enabled; the
\* watcher classifies by the rules alone)
InitStarve == (\E enabled \in BOOLEAN : DaemonStartWith(Absent, enabled)) /\ hist = NoHist

\* changes to a managed file and to the secret plaintext, reported while no
\* flush has succeeded (the flushes are counted up to MaxFlushes)
StarveEvent(p) == shared.total_flushes = 0 /\ FsEvent(p)

NextStarve ==
    \/ DaemonLoop
    \/ DaemonStage("none")
    \/ Elapse
    \/ \E p \in {"c/f", "c/s"} : StarveEvent(p)

\* the main loop wakes at least every 100 ms (recv_timeout, line 233), a
\* flush that holds the lock runs to its end, and time passes
SpecStarve ==
    /\ InitStarve /\ [][NextStarve]_vars
    /\ WF_vars(DaemonLoop) /\ WF_vars(DaemonStage("none")) /\ WF_vars(Elapse)

\* reloads asked for by a client and by hang-up signals while the
\* configuration file is edited
NextReload ==
    \/ DaemonLoop
    \/ FsEvent("c/f")
    \/ Sighup
    \/ \E valid \in BOOLEAN, watchable \in BOOLEAN : EditConfig(valid, watchable)
    \/ IpcConnect("a", "reload")
    \/ IpcServe("a")
    \/ IpcRecv

SpecReload == InitControl /\ [][NextReload]_vars

(***************************************************************************)
(* One Backoff on its own: fail at the instants at which the main loop may *)
(* call it (line 279 lets a flush start only when ready), reset, and a     *)
(* clock that runs long enough for the delay to reach its ceiling.         *)
(***************************************************************************)
BackoffFail ==
    /\ fails.k < MaxFails
    /\ backoff_ready(backoff, now)
    /\ backoff' = backoff_fail(backoff, now)
    /\ fails' = [k |-> fails.k + 1, at |-> now]
    /\ UNCHANGED <<deployVars, wall, now, marker, control_rx, rx, dpc, debouncer,
                   secrets_debouncer, auto_add_queue, pause_until, force_flush,
                   last_inhibit_check, shared, drained, staged, guard, lastPush, caller,
                   watch, snap, ctl, hist, flushVars>>

BackoffReset ==
    /\ fails.k > 0
    /\ backoff' = backoff_reset(backoff)
    /\ fails' = NoFails
    /\ UNCHANGED <<deployVars, wall, now, marker, control_rx, rx, dpc, debouncer,
                   secrets_debouncer, auto_add_queue, pause_until, force_flush,
                   last_inhibit_check, shared, drained, staged, guard, lastPush, caller,
                   watch, snap, ctl, hist, flushVars>>

BackoffTick ==
    /\ now < MaxBackoffTime
    /\ now' = now + 1
    /\ UNCHANGED <<deployVars, wall, marker, control_rx, rx, dpc, debouncer,
                   secrets_debouncer, auto_add_queue, backoff, pause_until, force_flush,
                   last_inhibit_check, shared, drained, staged, guard, lastPush, unitVars,
                   caller>>

InitBackoff ==
    /\ DaemonOff
    /\ fs = HomeOf(Absent, Absent, Absent)
    /\ repo = [r \in Revs |-> TreeB]
    /\ cfgSecrets = FALSE
    /\ ruleMode = NoMode
    /\ genFile = <<>>
    /\ backups = EmptyBackup
    /\ lockHolders = {}
    /\ cli = [p \in CLIs |-> IdleCli]
    /\ lastDeployed = "none"
    /\ genCap = 0
    /\ wall = 0

NextBackoff ==
    \/ BackoffFail
    \/ BackoffReset
    \/ BackoffTick

SpecBackoff == InitBackoff /\ [][NextBackoff]_vars

(***************************************************************************)
(* One process deploys the two fixed commits while another verifies.       *)
(***************************************************************************)
NextConcurrent ==
    \/ \E ref \in {"HEAD", "HEAD~1"}, nb \in BOOLEAN : CliDeploy("cli1", ref, nb, FALSE)
    \/ DeployStart("cli1")
    \/ DeployApply("cli1")
    \/ DeployRecord("cli1")
    \/ DeployReturn("cli1")
    \/ \E ref \in {"HEAD", "HEAD~1"}, strict \in BOOLEAN : CliVerify("cli2", ref, strict)
    \/ \E ref \in {"HEAD", "HEAD~1"} : CliPlan("cli2", ref)
    \/ \E p \in CLIs : CliExit(p)

SpecConcurrent == InitRollback /\ [][NextConcurrent]_vars

(***************************************************************************)
(* Deploys with a secret rule over every kind of node at the plaintext     *)
(* path, with the rule's mode set and unset.                               *)
(***************************************************************************)
InitSecrets ==
    /\ fs \in {HomeOf(Absent, Absent, s) :
                s \in {Absent, RegFile("old", FALSE), RegFile("top", TRUE),
                       Symlink("/h/u/c/l"), Symlink("/e/p"), Dir}}
    /\ repo \in {[r \in Revs |-> IF r = "A" THEN TreeOf(FileEntry("100644", "v1"), NoEntry, c)
                                 ELSE TreeB] :
                    c \in {NoEntry, FileEntry("100644", "junk"), FileEntry("100644", "enc:low")}}
    /\ cfgSecrets \in BOOLEAN
    /\ ruleMode \in {NoMode, 416}
    /\ genFile = <<>>
    /\ backups = EmptyBackup
    /\ lockHolders = {}
    /\ cli = [p \in CLIs |-> IdleCli]
    /\ lastDeployed = "none"
    /\ genCap = MaxDeploys
    /\ wall = 0
    /\ DaemonOff

NextSecrets ==
    \/ \E ref \in {"HEAD", "HEAD~1"}, nb \in BOOLEAN, ns \in BOOLEAN :
          CliDeploy("cli1", ref, nb, ns)
    \/ DeployStart("cli1")
    \/ DeployApply("cli1")
    \/ DeployRecord("cli1")
    \/ DeployReturn("cli1")
    \/ CliExit("cli1")
    \/ WallTick

SpecSecrets == InitSecrets /\ [][NextSecrets]_vars

(***************************************************************************)
(* plan and verify of a commit over a home tree: the two commands run by   *)
(* two processes while nothing else touches the home.                      *)
(***************************************************************************)
PlanHomes ==
    {[p \in HomePaths |->
        CASE p = "c/f" -> f
          [] p = "c/l" -> l
          [] p = "c/s" -> Absent
          [] p = "c/s.age" -> c
          [] p = "z" -> RegFile("zz0", FALSE)] :
        f \in {Absent, RegFile("v1", FALSE), RegFile("v1", TRUE), RegFile("../z", FALSE),
               Symlink("../z"), Dir},
        l \in {Absent, Symlink("/e/p"), RegFile("v3", FALSE)},
        c \in {Absent, RegFile("enc:top", FALSE)}}

PlanTrees ==
    {TreeOf(f, l, c) :
        f \in {NoEntry, FileEntry("100644", "v1"), FileEntry("120000", "../z"),
               FileEntry("100644", "")},
        l \in {NoEntry, FileEntry("120000", "/e/p"), FileEntry("100644", "/e/p")},
        c \in {NoEntry, FileEntry("100644", "enc:top")}}

InitPlan ==
    /\ fs \in PlanHomes
    /\ repo \in {[r \in Revs |-> IF r = "A" THEN a ELSE TreeB] : a \in PlanTrees}
    /\ cfgSecrets \in BOOLEAN
    /\ ruleMode = NoMode
    /\ genFile = <<>>
    /\ backups = EmptyBackup
    /\ lockHolders = {}
    /\ cli = [p \in CLIs |-> IdleCli]
    /\ lastDeployed = "none"
    /\ genCap = 0
    /\ wall = 0
    /\ DaemonOff

NextPlan ==
    \/ \E ref \in {"HEAD", "HEAD~1", "HEAD~2"} : CliPlan("cli1", ref)
    \/ \E ref \in {"HEAD", "HEAD~1", "HEAD~2"}, strict \in BOOLEAN : CliVerify("cli2", ref, strict)
    \/ \E p \in CLIs : CliExit(p)

SpecPlan == InitPlan /\ [][NextPlan]_vars

(***************************************************************************)
(* snapshot over an index that other git commands (add -f, rm, merge)      *)
(* change.                                                                 *)
(***************************************************************************)
\* the index holds a staged entry for the path
InIndexStaged(line) == line.kind \in {"1", "2", "u"} /\ line.x # "."

GitIndex(p, line) ==
    /\ snap.index[p] # line
    /\ snap' = [snap EXCEPT !.index[p] = line]
    /\ UNCHANGED <<deployVars, wall, now, marker, control_rx, rx, dpc, debouncer,
                   secrets_debouncer, auto_add_queue, backoff, pause_until, force_flush,
                   last_inhibit_check, shared, drained, staged, guard, lastPush, caller,
                   watch, fails, ctl, hist, flushVars>>

CliSnapshot(message, auto) ==
    /\ Len(snap.history) < MaxCommits
    /\ \E guardOk \in {guard_snapshot_secrets(SecretsManager(cfgSecrets), snap.index)} :
       \E msg \in {snapshot_message(message, auto)} :
       \E c \in {git_commit(snap.index)} :
       \E ok \in {guardOk /\ msg # "error" /\ c.ok} :
          snap' = [index |-> IF ok THEN c.index ELSE snap.index,
                   history |-> IF ok THEN Append(snap.history, c.commit) ELSE snap.history,
                   last |-> [ran |-> TRUE, ok |-> ok,
                             plaintext_staged |->
                                \E r \in SecretRules : InIndexStaged(snap.index[r.path]),
                             before |-> snap.history]]
    /\ UNCHANGED <<deployVars, wall, now, marker, control_rx, rx, dpc, debouncer,
                   secrets_debouncer, auto_add_queue, backoff, pause_until, force_flush,
                   last_inhibit_check, shared, drained, staged, guard, lastPush, caller,
                   watch, fails, ctl, hist, flushVars>>

InitSnapshot ==
    /\ DaemonIdle
    /\ flush = NoFlush
    /\ gc = NoGc
    /\ watch = NoWatch
    /\ snap = NoSnap
    /\ fs = HomeOf(Absent, Absent, Absent)
    /\ repo = [r \in Revs |-> TreeB]
    /\ cfgSecrets \in BOOLEAN
    /\ ruleMode = NoMode
    /\ genFile = <<>>
    /\ backups = EmptyBackup
    /\ lockHolders = {}
    /\ cli = [p \in CLIs |-> IdleCli]
    /\ lastDeployed = "none"
    /\ genCap = 0
    /\ wall = 0

NextSnapshot ==
    \/ \E p \in SnapPaths, line \in IndexEntries : GitIndex(p, line)
    \/ \E message \in {"none", "m"}, auto \in BOOLEAN : CliSnapshot(message, auto)

SpecSnapshot == InitSnapshot /\ [][NextSnapshot]_vars

(***************************************************************************)
(* decide_watch_action on its own: a secrets configuration that            *)
(* Config::validate accepts (a non-empty sidecar suffix, any rule paths)   *)
(* and one event path.                                                     *)
(***************************************************************************)
SecretsChoices ==
    [enabled : BOOLEAN, sidecar_suffix : {".age", ".enc"},
     rules : {rs \in SUBSET [path : {"c/s", "c/k.age", "z"}, ciphertext : {"c/s.age"}] :
                Cardinality(rs) \in 1..MaxRules}]

WatchDecide ==
    /\ watch.action = "none"
    /\ watch' = [watch EXCEPT !.action = decide_watch_action(watch.secrets, watch.rel_path)]
    /\ UNCHANGED <<deployVars, wall, now, marker, control_rx, rx, dpc, debouncer,
                   secrets_debouncer, auto_add_queue, backoff, pause_until, force_flush,
                   last_inhibit_check, shared, drained, staged, guard, lastPush, caller,
                   snap, fails, ctl, hist, flushVars>>

InitWatch ==
    /\ DaemonIdle
    /\ flush = NoFlush
    /\ gc = NoGc
    /\ \E sm \in SecretsChoices, p \in HomePaths \cup {"c/k.age"} :
          watch = [secrets |-> sm, rel_path |-> p, action |-> "none"]
    /\ snap = NoSnap
    /\ wall = 0
    /\ fs = HomeOf(Absent, Absent, Absent)
    /\ repo = [r \in Revs |-> TreeB]
    /\ cfgSecrets = FALSE
    /\ ruleMode = NoMode
    /\ genFile = <<>>
    /\ backups = EmptyBackup
    /\ lockHolders = {}
    /\ cli = [p \in CLIs |-> IdleCli]
    /\ lastDeployed = "none"
    /\ genCap = 0

NextWatch == WatchDecide

SpecWatch == InitWatch /\ [][NextWatch]_vars

(***************************************************************************)
(* One Debounce queue on its own: pushes and drains at the instants of a   *)
(* clock.                                                                  *)
(***************************************************************************)
DebouncePush(v) ==
    /\ caller.drained \/ Len(caller.log) < MaxPushes
    /\ debouncer' = push(debouncer, v, now)
    /\ lastPush' = now
    /\ caller' = [caller EXCEPT !.log = IF caller.drained THEN <<v>> ELSE Append(@, v),
                                !.drained = FALSE]
    /\ UNCHANGED <<deployVars, wall, now, marker, control_rx, rx, dpc, secrets_debouncer,
                   auto_add_queue, backoff, pause_until, force_flush, last_inhibit_check,
                   shared, drained, staged, guard, unitVars>>

DebounceDrain ==
    /\ debouncer' = drain(debouncer).d
    /\ lastPush' = NoInstant
    /\ caller' = [log |-> IF caller.drained THEN <<>> ELSE caller.log,
                  out |-> drain(debouncer).items,
                  drained |-> TRUE]
    /\ UNCHANGED <<deployVars, wall, now, marker, control_rx, rx, dpc, secrets_debouncer,
                   auto_add_queue, backoff, pause_until, force_flush, last_inhibit_check,
                   shared, drained, staged, guard, unitVars>>

InitDebounce ==
    /\ \E w \in 1..MaxWindow : debouncer = NewDebounce(w)
    /\ secrets_debouncer = NewDebounce(DebounceWindow)
    /\ lastPush = NoInstant
    /\ caller = NoCalls
    /\ fails = NoFails
    /\ flush = NoFlush
    /\ gc = NoGc
    /\ ctl = NewCtl
    /\ hist = NoHist
    /\ watch = NoWatch
    /\ snap = NoSnap
    /\ now = 0
    /\ marker = NoMarker
    /\ control_rx = <<>>
    /\ rx = <<>>
    /\ dpc = "off"
    /\ auto_add_queue = {}
    /\ backoff = NewBackoff
    /\ pause_until = NoInstant
    /\ force_flush = FALSE
    /\ last_inhibit_check = 0
    /\ shared = NewShared
    /\ drained = NoDrained
    /\ staged = {}
    /\ guard = [g \in Guards |-> [pc |-> "idle", ttl |-> 0]]
    /\ fs = HomeOf(Absent, Absent, Absent)
    /\ repo = [r \in Revs |-> TreeB]
    /\ cfgSecrets = FALSE
    /\ ruleMode = NoMode
    /\ genFile = <<>>
    /\ backups = EmptyBackup
    /\ lockHolders = {}
    /\ cli = [p \in CLIs |-> IdleCli]
    /\ lastDeployed = "none"
    /\ genCap = 0
    /\ wall = 0

NextDebounce ==
    \/ \E v \in EventPaths : DebouncePush(v)
    \/ DebounceDrain
    \/ Tick

SpecDebounce == InitDebounce /\ [][NextDebounce]_vars

(***************************************************************************)
(* flush_changes on its own: what it hands to the backend, call by call.   *)
(* Here a path is the sequence of its components and a component the       *)
(* sequence of its bytes, so that the order of PathBuf (component by       *)
(* component, a component byte by byte) and add_suffix are computed.       *)
(***************************************************************************)
\* lexicographic comparison of two sequences whose elements compare by lt
LexLess(a, b, lt(_, _)) ==
    \E k \in 0..MinOf(Len(a), Len(b)) :
        /\ \A i \in 1..k : a[i] = b[i]
        /\ \/ k = Len(a) /\ k < Len(b)
           \/ k < Len(a) /\ k < Len(b) /\ lt(a[k + 1], b[k + 1])

\* Ord of PathBuf
path_less(p, q) ==
    LexLess(p, q, LAMBDA x, y : LexLess(x, y, LAMBDA m, n : m < n))

\* iteration of a BTreeSet<PathBuf>
RECURSIVE BTreeIter(_)
BTreeIter(S) ==
    IF S = {} THEN <<>>
    ELSE LET least == CHOOSE x \in S : \A y \in S \ {x} : path_less(x, y)
         IN <<least>> \o BTreeIter(S \ {least})

\* secrets.rs add_suffix: the suffix pushed onto the path's string
add_suffix(path, suffix) == [path EXCEPT ![Len(path)] = @ \o suffix]

\* ".age"
SidecarSuffix == <<46, 97, 103, 101>>

\* "c/a" and "c/a-b", paths under the managed root
FlushManaged == {<<(<<99>>), (<<97>>)>>, <<(<<99>>), (<<97, 45, 98>>)>>}

\* "c/k" and "c/k-p", paths that secret rules name
FlushPlaintexts == {<<(<<99>>), (<<107>>)>>, <<(<<99>>), (<<107, 45, 112>>)>>}

\* "v/x" and "v/y", the `ciphertext` a rule may give; <<>> is None
FlushCiphertexts == {<<(<<118>>), (<<120>>)>>, <<(<<118>>), (<<121>>)>>}

\* the secret rules of a configuration: distinct plaintext paths, each with
\* its own ciphertext or none
FlushRules ==
    {rs \in SUBSET [path : FlushPlaintexts, ciphertext : FlushCiphertexts \cup {<<>>}] :
        /\ Cardinality(rs) <= MaxRules
        /\ \A r1, r2 \in rs :
              r1 # r2 => /\ r1.path # r2.path
                         /\ (r1.ciphertext # r2.ciphertext \/ r1.ciphertext = <<>>)}

\* where flush_changes can meet an error from outside
FlushFailures == {"none", "lock", "auto_add", "encrypt", "write", "sidecars", "managed"}

\* one call of the backend or of the file system; op is "encrypt", "write"
\* or, for a backend add, the context flush_changes gives its error
Call(op, mode, paths) == [op |-> op, mode |-> mode, paths |-> paths]

\* flush_changes lines 407-442, the loop over secret_paths: acc is
\* [calls, ciphertext_paths, ok]
RECURSIVE encrypt_each(_, _, _, _)
encrypt_each(ctx, env, rels, acc) ==
    IF rels = <<>> \/ ~acc.ok THEN acc
    ELSE LET rel == Head(rels)
             rest == Tail(rels)
             found == {r \in ctx.rules : r.path = rel}
         IN IF rel \in env.unreadable THEN encrypt_each(ctx, env, rest, acc)
            ELSE IF env.failAt = "encrypt"
            THEN [acc EXCEPT !.ok = FALSE,
                             !.calls = Append(@, Call("encrypt", "none", <<rel>>))]
            ELSE IF found = {}
            THEN encrypt_each(ctx, env, rest,
                     [acc EXCEPT !.calls = Append(@, Call("encrypt", "none", <<rel>>))])
            ELSE LET rule == CHOOSE r \in found : TRUE
                     ciphertext_rel == IF rule.ciphertext # <<>> THEN rule.ciphertext
                                       ELSE add_suffix(rule.path, ctx.sidecar_suffix)
                     done == acc.calls \o <<Call("encrypt", "none", <<rel>>),
                                            Call("write", "none", <<ciphertext_rel>>)>>
                 IN IF env.failAt = "write"
                    THEN [acc EXCEPT !.ok = FALSE, !.calls = done]
                    ELSE encrypt_each(ctx, env, rest,
                             [acc EXCEPT !.calls = done,
                                         !.ciphertext_paths = Append(@, ciphertext_rel)])

\* flush_changes lines 376-464: the calls made, in order, and whether the
\* closure returned Ok.  managed, secrets and auto_add are what the three
\* queues held.
flush_changes(ctx, env, managed, secrets, auto_add) ==
    LET managed_paths == BTreeIter(managed)
        secret_paths == BTreeIter(secrets)
        auto_add_paths == BTreeIter(auto_add)
        c1 == IF auto_add_paths # <<>>
              THEN <<Call("auto-add", "paths", auto_add_paths)>> ELSE <<>>
        e == encrypt_each(ctx, env, secret_paths,
                          [calls |-> c1, ciphertext_paths |-> <<>>, ok |-> TRUE])
        c2 == IF e.ciphertext_paths # <<>>
              THEN Append(e.calls, Call("stage secret sidecars", "paths", e.ciphertext_paths)) ELSE e.calls
        c3 == IF managed_paths # <<>>
              THEN Append(c2, Call("stage managed paths",
                                   IF ctx.auto_stage_tracked_only
                                   THEN "tracked_only" ELSE "paths",
                                   managed_paths))
              ELSE c2
    IN IF managed_paths = <<>> /\ secret_paths = <<>> /\ auto_add_paths = <<>>
       THEN [calls |-> <<>>, ok |-> TRUE]
       ELSE IF env.failAt = "lock" THEN [calls |-> <<>>, ok |-> FALSE]
       ELSE IF auto_add_paths # <<>> /\ env.failAt = "auto_add"
       THEN [calls |-> c1, ok |-> FALSE]
       ELSE IF secret_paths # <<>> /\ ~ctx.secrets_backend
       THEN [calls |-> c1, ok |-> FALSE]
       ELSE IF ~e.ok THEN [calls |-> e.calls, ok |-> FALSE]
       ELSE IF e.ciphertext_paths # <<>> /\ env.failAt = "sidecars"
       THEN [calls |-> c2, ok |-> FALSE]
       ELSE IF managed_paths # <<>> /\ env.failAt = "managed"
       THEN [calls |-> c3, ok |-> FALSE]
       ELSE [calls |-> c3, ok |-> TRUE]

\* the main loop calls flush_changes
FlushChanges ==
    /\ ~flush.ran
    /\ \E r \in {flush_changes(flush.ctx, flush.env, flush.managed, flush.secrets,
                               flush.auto_add)} :
          flush' = [flush EXCEPT !.ran = TRUE, !.calls = r.calls, !.ok = r.ok]
    /\ UNCHANGED <<deployVars, wall, now, marker, control_rx, rx, dpc, debouncer,
                   secrets_debouncer, auto_add_queue, backoff, pause_until, force_flush,
                   last_inhibit_check, shared, drained, staged, guard, lastPush, caller,
                   watch, snap, fails, ctl, hist, gc>>

\* a configuration, a state of the three queues (what waits for the forced
\* add also waits in the managed queue) and the errors to come
InitFlushOrder ==
    /\ DaemonIdle
    /\ gc = NoGc
    /\ watch = NoWatch
    /\ snap = NoSnap
    /\ \E rules \in FlushRules, tracked \in BOOLEAN, backend \in BOOLEAN,
          managed \in SUBSET FlushManaged, secrets \in SUBSET FlushPlaintexts,
          failAt \in FlushFailures :
       \E auto_add \in SUBSET managed, unreadable \in SUBSET secrets :
          flush = [ran |-> FALSE,
                   ctx |-> [rules |-> rules, sidecar_suffix |-> SidecarSuffix,
                            secrets_backend |-> backend,
                            auto_stage_tracked_only |-> tracked],
                   env |-> [failAt |-> failAt, unreadable |-> unreadable],
                   managed |-> managed, secrets |-> secrets, auto_add |-> auto_add,
                   calls |-> <<>>, ok |-> TRUE]
    /\ wall = 0
    /\ fs = HomeOf(Absent, Absent, Absent)
    /\ repo = [r \in Revs |-> TreeB]
    /\ cfgSecrets = FALSE
    /\ ruleMode = NoMode
    /\ genFile = <<>>
    /\ backups = EmptyBackup
    /\ lockHolders = {}
    /\ cli = [p \in CLIs |-> IdleCli]
    /\ lastDeployed = "none"
    /\ genCap = 0

NextFlushOrder == FlushChanges

SpecFlushOrder == InitFlushOrder /\ [][NextFlushOrder]_vars

(***************************************************************************)
(* Properties of deploy, verify, rollback and the generation log.          *)
(***************************************************************************)
RevsOf(entries) == [i \in 1..Len(entries) |-> entries[i].rev]

IsPrefix(a, b) == Len(a) <= Len(b) /\ SubSeq(b, 1, Len(a)) = a

\* the home tree holds the content of the entries of revTree at the paths of target
HoldsContent(tree, revTree, target) ==
    \A rel \in target :
        IF revTree[rel].mode = "120000"
        THEN tree[rel] = Symlink(revTree[rel].blob)
        ELSE tree[rel] = RegFile(revTree[rel].blob, revTree[rel].mode = "100755")

\* a command of process p returns in this step
Returns(p) == cli[p].pc # "done" /\ cli'[p].pc = "done"

\* C3: a verify(R) that runs right after a successful deploy(R) reports no
\* missing, modified or type_mismatch entry, and with strict no mode_mismatch
\* and no unexpected entry either
C3_VerifyCleanAfterDeploy ==
    \A p \in CLIs :
        (cli[p].pc = "done" /\ cli[p].op = "verify" /\ cli[p].ok /\ cli[p].fresh) =>
            /\ cli[p].report.missing = {}
            /\ cli[p].report.modified = {}
            /\ cli[p].report.type_mismatch = {}
            /\ cli[p].strict =>
                  /\ cli[p].report.mode_mismatch = {}
                  /\ cli[p].report.unexpected = {}

\* the symlink entries of the revision a deploy is applying whose target,
\* resolved from the link's parent directory, does not lie under home
EscapingEntries(p) ==
    {rel \in cli[p].target :
        /\ repo[cli[p].resolved][rel].mode = "120000"
        /\ ~StartsWith(LinkDest(rel, repo[cli[p].resolved][rel].blob), Home)}

\* C4: a deploy of a revision with a symlink entry whose target resolves
\* outside home fails, leaves whatever was at that path as it was (no link
\* is created there) and appends no generation entry
C4_EscapingSymlinkRefused ==
    [][\A p \in CLIs :
          (cli[p].pc = "locked" /\ cli'[p].pc # "locked" /\ EscapingEntries(p) # {}) =>
              /\ cli'[p].pc = "done"
              /\ ~cli'[p].ok
              /\ \A rel \in EscapingEntries(p) : fs'[rel] = fs[rel]
              /\ genFile' = genFile]_vars

\* C5: the generation log only grows by appending: every step leaves the
\* entries read before it as a prefix of the entries read after it, and a
\* step that adds one adds the entry being appended at the end
C5_LogAppendOnly ==
    [][/\ read_generations(genFile').ok
       /\ IsPrefix(Generations, Generations')
       /\ Generations' # Generations =>
             \E p \in CLIs : /\ cli[p].pc = "applied"
                             /\ Generations' = Append(Generations,
                                                      JsonChunk(cli[p].resolved, "None"))]_vars

C5_Witness ==
    \E p \in CLIs, q \in CLIs :
        /\ cli[p].pc = "done" /\ ~cli[p].ok
        /\ cli[q].pc = "written"
        /\ Len(Generations) >= 2

\* C6: a deploy that returns has appended exactly one entry, with the
\* resolved id of the requested ref and no message, if and only if backup,
\* apply target, apply secrets and delete missing all succeeded; otherwise
\* it has appended nothing
C6_OneEntryIffAllSteps ==
    [][\A p \in CLIs :
          (Returns(p) /\ cli'[p].op = "deploy") =>
              /\ cli'[p].ok <=> cli'[p].stepsOk
              /\ cli'[p].stepsOk =>
                    Generations' = Append(cli'[p].log0,
                                          JsonChunk(rev_parse(cli'[p].ref), "None"))
              /\ ~cli'[p].stepsOk => Generations' = Generations]_vars

C6_Witness ==
    \E p \in CLIs :
        /\ cli[p].pc = "done" /\ cli[p].op = "deploy" /\ cli[p].ok
        /\ cli[p].ref = "HEAD~1"
        /\ RevsOf(Generations) = RevsOf(cli[p].log0) \o <<"A">>

\* C7: rollback with steps = n >= 1 and no explicit revision, reading a log
\* of more than n entries, deploys the revision of generations[len-1-n]:
\* when it returns successfully the home tree holds that revision's content
\* and one entry for it has been appended
C7_RollbackReplays ==
    [][\A p \in CLIs :
          /\ (/\ cli[p].pc = "idle" /\ cli'[p].op = "rollback"
              /\ ~cli'[p].explicit /\ cli'[p].steps >= 1
              /\ Len(Generations) > cli'[p].steps) =>
                 /\ cli'[p].pc = "start"
                 /\ cli'[p].ref = Generations[Len(Generations) - cli'[p].steps].rev
          /\ (/\ Returns(p) /\ cli'[p].ok /\ cli[p].op = "rollback"
              /\ ~cli[p].explicit /\ Len(cli[p].rbLog) > cli[p].steps) =>
                 LET rev == cli[p].rbLog[Len(cli[p].rbLog) - cli[p].steps].rev
                 IN /\ Generations' = Append(cli[p].log0, JsonChunk(rev, "None"))
                    /\ HoldsContent(fs', repo[rev], cli[p].target)]_vars

\* deploy(A), deploy(B), rollback(steps = 1): home holds A, the log reads A, B, A
C7_Witness ==
    \E p \in CLIs :
        /\ cli[p].pc = "done" /\ cli[p].op = "rollback" /\ cli[p].ok
        /\ cli[p].steps = 1 /\ ~cli[p].explicit
        /\ RevsOf(Generations) = <<"A", "B", "A">>
        /\ HoldsContent(fs, repo["A"], cli[p].target)
        /\ cli[p].target # {}

MarkerActive == read_inhibit(marker) = "some" /\ ~is_expired(marker, wall)

PauseActive == pause_until # NoInstant /\ now < pause_until

\* C1: the daemon performs no backend add at a moment when a non-expired
\* inhibit marker exists or its pause deadline is set and in the future.
C1_NoStageWhileInhibited ==
    [][(dpc = "staging" /\ staged' # {}) => (~MarkerActive /\ ~PauseActive)]_vars

\* C2: the daemon stages only while it holds the state-directory lock, a
\* deploy holds the lock from before it reads the home tree until after it
\* has appended the generation entry, and the lock never has two holders.
C2_LockExclusive ==
    /\ Cardinality(lockHolders) <= 1
    /\ dpc = "staging" => "daemon" \in lockHolders
    /\ \A p \in CLIs : cli[p].pc \in {"locked", "applied", "written"} => p \in lockHolders

\* the daemon is staging under the lock while one deploy waits for it, and a
\* deploy holds the lock while the other waits
C2_Witness ==
    \/ dpc = "staging" /\ drained.managed # {} /\ \E p \in CLIs : cli[p].pc = "start"
    \/ \E p, q \in CLIs : cli[p].pc = "applied" /\ cli[q].pc = "start" /\ rx # <<>>

\* C9: after every successful flush the three queues are empty and the
\* recorded last_flush_at is strictly greater than the one recorded by the
\* previous successful flush.
C9_FlushEmptiesAndAdvances ==
    [][shared'.total_flushes # shared.total_flushes =>
          /\ is_empty(debouncer')
          /\ is_empty(secrets_debouncer')
          /\ auto_add_queue' = {}
          /\ (shared.last_flush_at # NoInstant =>
                 shared'.last_flush_at > shared.last_flush_at)]_vars

\* C10: with the most recent push at t and window W, is_due(t') is false for
\* every t' < t+W and true for every t' >= t+W; a later push moves the due
\* instant; is_due is false when nothing was pushed since the last drain.
C10_DueFromLastPush ==
    \A t \in 0..(MaxTime + MaxWindow) :
        is_due(debouncer, t) <=>
            (lastPush # NoInstant /\ t >= lastPush + debouncer.window)

\* two items are pending after a push later than instant 0 and the clock stands at
\* the due instant of that push
C10_Witness ==
    /\ Cardinality(debouncer.pending) >= 2
    /\ lastPush >= 1
    /\ now = lastPush + debouncer.window
    /\ is_due(debouncer, now)
    /\ ~is_due(debouncer, now - 1)

\* position of a path in the ordering of the container
PathIndex(p) == CHOOSE i \in 1..Len(PathOrder) : PathOrder[i] = p

StrictlyAscending(seq) ==
    \A i \in 1..(Len(seq) - 1) : PathIndex(seq[i]) < PathIndex(seq[i + 1])

\* C11: drain returns every value pushed since the previous drain exactly once
\* in ascending order and leaves the queue empty with no last-event instant,
\* so a second drain returns nothing and is_due is false until the next push.
C11_DrainReturnsPushedOnce ==
    caller.drained =>
        /\ ToSet(caller.out) = ToSet(caller.log)
        /\ StrictlyAscending(caller.out)
        /\ is_empty(debouncer)
        /\ debouncer.last_event = NoInstant
        /\ drain(debouncer).items = <<>>
        /\ \A t \in 0..(MaxTime + MaxWindow) : ~is_due(debouncer, t)

\* c/s, c/f, c/s were pushed, in that order, and the drain returned c/f, c/s
C11_Witness ==
    /\ caller.drained
    /\ caller.log = <<"c/s", "c/f", "c/s">>
    /\ caller.out = <<"c/f", "c/s">>
    /\ now >= 1

\* the paths waiting in the daemon's queues or in a flush in progress
Waiting == debouncer.pending \cup secrets_debouncer.pending \cup auto_add_queue
              \cup drained.managed \cup drained.secrets \cup drained.auto_add

\* C12: files modified before and during a pause are not staged while the
\* pause lasts, and after resume one flush stages exactly those paths: no
\* flush is in progress while the pause deadline is set, and (no marker file being
\* there) a modified path leaves the queues only by being handed to the
\* backend add.
C12_PausedChangesStagedAfterResume ==
    [][/\ dpc' = "staging" => pause_until' = NoInstant
       /\ (~marker.present /\ ~marker'.present) =>
             \A p \in Waiting : p \in Waiting' \/ p \in staged']_vars

(***************************************************************************)
(* C13: whatever the secret rules and the sidecar suffix, an event on a    *)
(* path that is the plaintext path of a rule is classified                 *)
(* SecretPlaintext, never Ignore and never Managed.                        *)
(***************************************************************************)
C13_PlaintextIsSecretPlaintext ==
    (watch.action # "none" /\ is_secret_plaintext(watch.secrets, watch.rel_path))
        => watch.action = "secret_plaintext"

(***************************************************************************)
(* C14: the daemon never hands the plaintext path of a secret rule to the  *)
(* backend's add: through events, flushes, failed adds and requeues the    *)
(* managed and the auto-add queue (waiting or drained for a flush) hold no *)
(* rule's plaintext path, and no add is given one; for a secret only the   *)
(* ciphertext path of its rule is added.                                   *)
(***************************************************************************)
C14_PlaintextNeverStaged ==
    \A r \in SecretRules :
        /\ r.path \notin debouncer.pending \cup auto_add_queue
        /\ r.path \notin drained.managed \cup drained.auto_add
        /\ r.path \notin staged
        /\ staged \subseteq EventPaths \cup {r.ciphertext}

C14_Witness ==
    /\ staged = {"c/l", "c/s.age"}
    /\ backoff.until # NoInstant
    /\ "c/s" \in secrets_debouncer.pending

(***************************************************************************)
(* C15: for every revision and every home tree, when plan of the revision  *)
(* has no entry, a non-strict verify of the same revision over the same    *)
(* home reports nothing missing, nothing modified and no type mismatch.    *)
(***************************************************************************)
C15_EmptyPlanVerifiesClean ==
    \A p \in CLIs, q \in CLIs :
        (/\ cli[p].op = "plan" /\ cli[p].ok /\ cli[p].plan = <<>>
         /\ cli[q].op = "verify" /\ cli[q].ok /\ ~cli[q].strict
         /\ cli[q].resolved = cli[p].resolved)
        => /\ cli[q].report.missing = {}
           /\ cli[q].report.modified = {}
           /\ cli[q].report.type_mismatch = {}

(***************************************************************************)
(* C16: with secrets enabled, a snapshot run while the index holds a       *)
(* staged entry for the plaintext path of a secret rule fails and makes    *)
(* no commit: the commit history is what it was before the snapshot.       *)
(***************************************************************************)
C16_StagedPlaintextBlocksSnapshot ==
    (cfgSecrets /\ snap.last.ran /\ snap.last.plaintext_staged)
        => (~snap.last.ok /\ snap.history = snap.last.before)

C16_Witness ==
    /\ cfgSecrets /\ snap.last.ran /\ snap.last.plaintext_staged
    /\ snap.index["c/s"] = StatusLine("1", "A", ".")
    /\ snap.index["c/f"] = StatusLine("1", "M", ".")
    /\ Len(snap.history) = 1

(***************************************************************************)
(* C17: when a deploy with secrets enabled has succeeded, the plaintext    *)
(* path of every secret rule is a regular file whose content is the        *)
(* decryption of the revision's ciphertext blob and whose permission bits  *)
(* are the rule's mode, 0600 when the rule has none, whatever was at the   *)
(* path before (nothing, a regular file, a symlink); and a deploy that     *)
(* finds a directory at the path fails and leaves the directory.           *)
(***************************************************************************)
C17_PlaintextWrittenWithMode ==
    [][\A p \in CLIs : \A r \in SecretRules :
          (/\ cli[p].pc = "locked" /\ cli'[p].pc # "locked"
           /\ cfgSecrets /\ ~cli[p].noSecrets)
          => /\ cli'[p].pc = "applied" =>
                  fs'[r.path] = File(Decrypt(repo[cli[p].resolved][r.ciphertext].blob),
                                     IF ruleMode = NoMode THEN DefaultSecretMode ELSE ruleMode)
             /\ fs[r.path].kind = "dir" =>
                  (cli'[p].pc = "done" /\ ~cli'[p].ok /\ fs'[r.path] = Dir)]_vars

C17_Witness ==
    /\ cfgSecrets /\ ruleMode # NoMode
    /\ cli["cli1"].op = "deploy" /\ cli["cli1"].pc = "done" /\ cli["cli1"].ok
    /\ ~cli["cli1"].noSecrets
    /\ Len(genFile) = 4
    /\ fs["c/s"] = File("top", ruleMode)

(***************************************************************************)
(* C18: the lock is released on every exit path.  A CLI process that is    *)
(* not inside deploy (it has not started, or deploy has returned Ok or an  *)
(* error from any step) holds no lock, the daemon outside a flush (after   *)
(* flush_changes returned Ok or Err) holds no lock, and when nobody is     *)
(* inside a deploy or a flush a try-acquire succeeds.                      *)
(***************************************************************************)
C18_LockReleasedOnExit ==
    /\ \A p \in CLIs : cli[p].pc \in {"idle", "start", "done"} => p \notin lockHolders
    /\ dpc # "staging" => "daemon" \notin lockHolders
    /\ ((\A p \in CLIs : cli[p].pc \in {"idle", "start", "done"}) /\ dpc # "staging")
          => try_acquire_lock(lockHolders)

C18_Witness ==
    /\ cli["cli1"].pc = "done" /\ ~cli["cli1"].ok /\ cli["cli1"].resolved = "A"
    /\ cli["cli2"].pc = "done" /\ cli["cli2"].ok
    /\ dpc = "loop" /\ backoff.until # NoInstant
    /\ try_acquire_lock(lockHolders)

(***************************************************************************)
(* C19: verify (like snapshot, track and the secret operations) takes the  *)
(* exclusive lock before it reads the tree, so it never runs while a       *)
(* deploy or a daemon flush holds the lock: at the step where verify reads *)
(* the home tree no other process holds the lock.                          *)
(***************************************************************************)
C19_VerifyUnderLock ==
    [][\A p \in CLIs :
          (cli[p].pc = "idle" /\ cli'[p].pc = "done" /\ cli'[p].op = "verify")
              => acquire_lock(lockHolders)]_vars

(***************************************************************************)
(* C20: a directory at the home path of an expected file is never replaced *)
(* or removed.  A deploy whose target has a regular or a symlink entry at  *)
(* a path that is a directory in home fails and leaves the directory, no   *)
(* step changes a directory at a path of the tree, and a verify that       *)
(* finds a directory at the path of a target entry reports the path as     *)
(* type_mismatch.                                                          *)
(***************************************************************************)
C20_DirectoryNeverReplaced ==
    [][/\ \A rel \in TreePaths : fs[rel] = Dir => fs'[rel] = Dir
       /\ \A p \in CLIs :
            /\ (/\ cli[p].pc = "locked" /\ cli'[p].pc # "locked"
                /\ \E rel \in cli[p].target : fs[rel] = Dir)
               => (cli'[p].pc = "done" /\ ~cli'[p].ok)
            /\ (cli[p].pc = "idle" /\ cli'[p].op = "verify" /\ cli'[p].ok)
               => \A rel \in TreePaths :
                     (fs[rel] = Dir /\ repo[cli'[p].resolved][rel].mode # "none"
                        /\ is_managed(cfgSecrets, rel))
                     => rel \in cli'[p].report.type_mismatch]_vars

C20_Witness ==
    /\ cli["cli1"].op = "deploy" /\ cli["cli1"].pc = "done" /\ ~cli["cli1"].ok
    /\ cli["cli1"].resolved = "A"
    /\ repo["A"]["c/f"].mode = "100755" /\ fs["c/f"] = RegFile("v1", TRUE)
    /\ repo["A"]["c/l"].mode = "120000" /\ fs["c/l"] = Dir

(***************************************************************************)
(* C21: computing a plan changes nothing and takes no lock.  The step in   *)
(* which a process computes a plan leaves the home tree, the generation    *)
(* log, the backup directory, the repository and its index and the lock as *)
(* they were, and an idle process can compute a plan whoever holds the     *)
(* lock.                                                                   *)
(***************************************************************************)
C21_PlanHasNoEffect ==
    /\ [][\A p \in CLIs :
            (cli[p].pc = "idle" /\ cli'[p].op = "plan")
                => /\ fs' = fs /\ genFile' = genFile /\ backups' = backups
                   /\ repo' = repo /\ snap' = snap /\ lockHolders' = lockHolders]_vars
    /\ [](cli["cli2"].pc = "idle" => ENABLED CliPlan("cli2", "HEAD"))

C21_Witness ==
    /\ cli["cli2"].op = "plan" /\ cli["cli2"].pc = "done" /\ cli["cli2"].ok
    /\ cli["cli2"].plan # <<>>
    /\ cli["cli1"].pc = "applied" /\ lockHolders = {"cli1"}

(***************************************************************************)
(* C22: a failed flush loses no drained path.  When a flush fails after    *)
(* the queues were drained (the lock is busy, or the add of the auto-add   *)
(* paths, of the sidecars or of the managed paths fails, or a sidecar      *)
(* cannot be written), every drained managed path, secret plaintext path   *)
(* and auto-add path is back in its queue, the queues that got paths back  *)
(* carry the instant of the flush as their last event, and the backoff     *)
(* waits.                                                                  *)
(***************************************************************************)
C22_FailedFlushRequeues ==
    [][/\ (dpc = "staging" /\ dpc' = "loop"
             /\ shared'.total_flushes = shared.total_flushes)
          => /\ drained.managed \subseteq debouncer'.pending
             /\ drained.secrets \subseteq secrets_debouncer'.pending
             /\ drained.auto_add \subseteq auto_add_queue'
             /\ (drained.managed # {} => debouncer'.last_event = drained.now)
             /\ (drained.secrets # {}
                   => secrets_debouncer'.last_event = drained.now)
             /\ backoff'.until # NoInstant
             /\ ~backoff_ready(backoff', drained.loop_now)
       \* the lock was busy: the iteration drained and put back at once
       /\ (dpc = "loop" /\ dpc' = "loop" /\ backoff' # backoff
             /\ backoff'.until # NoInstant)
          => LET q3 == IF rx # <<>>
                       THEN handle_event(cfgSecrets, Queues, Head(rx), now)
                       ELSE Queues
             IN /\ lockHolders # {}
                /\ q3.debouncer.pending \subseteq debouncer'.pending
                /\ q3.secrets_debouncer.pending \subseteq secrets_debouncer'.pending
                /\ q3.auto_add_queue \subseteq auto_add_queue'
                /\ (q3.debouncer.pending # {} => debouncer'.last_event = now)
                /\ (q3.secrets_debouncer.pending # {}
                      => secrets_debouncer'.last_event = now)
                /\ ~backoff_ready(backoff', now)]_vars

\* the lock held by a deploy, and the three queues filled again at this
\* instant by the flush that found it busy
C22_Witness ==
    /\ lockHolders = {"cli1"} /\ dpc = "loop"
    /\ backoff.until = now + backoff.current
    /\ "c/l" \in auto_add_queue /\ "c/l" \in debouncer.pending
    /\ "c/s" \in secrets_debouncer.pending
    /\ debouncer.last_event = now /\ secrets_debouncer.last_event = now
    /\ rx = <<>> /\ force_flush = FALSE

(***************************************************************************)
(* C23: the delay of the backoff.  One unit of the clock is 200 ms, so the *)
(* first delay of the claim is BackoffStart and its ceiling BackoffMax.    *)
(* After the k-th call of fail in a row (k >= 1) since new or the latest   *)
(* reset, the backoff is not ready before min(200 * 2^(k-1), 10000) ms     *)
(* have passed since the instant of that call and is ready from then on;   *)
(* with no call of fail since new or reset the delay is 200 ms and nothing *)
(* is waited for.                                                          *)
(***************************************************************************)
C23_BackoffDelay ==
    /\ fails.k >= 1
          => backoff.until = fails.at + MinOf(BackoffStart * 2 ^ (fails.k - 1), BackoffMax)
    /\ fails.k = 0 => backoff = NewBackoff

(***************************************************************************)
(* C26: a failed reload changes nothing.  In an iteration of the main loop *)
(* that read a Reload and whose reload failed, at DaemonContext::load or   *)
(* at setup_watcher, the error is recorded, every client that asked for    *)
(* the reload is given a failure, and the daemon runs on with the context  *)
(* (configuration, path oracle, watch roots), the watcher, its event       *)
(* channel and the watch roots of the status it had before.                *)
(***************************************************************************)
C26_FailedReloadKeepsContext ==
    [][(/\ \E i \in 1..Len(control_rx) : control_rx[i].cmd = "reload"
        /\ control_rx' = <<>>
        /\ dpc' # "off"
        /\ ~reload(ctl).ok)
          => /\ ctl'.last_error = "reload"
             /\ \A i \in 1..Len(control_rx) :
                   (control_rx[i].cmd = "reload" /\ control_rx[i].from \in IpcClients)
                      => ctl'.chan[control_rx[i].from] \in {"err", "closed"}
             /\ dpc' \in {"loop", "staging"}
             /\ ctl'.ctx = ctl.ctx
             /\ ctl'.watcher = ctl.watcher
             /\ ctl'.watch_roots = ctl.watch_roots
             /\ (rx # <<>> => rx' = Tail(rx))]_vars

(***************************************************************************)
(* C27: one truthful response for each relayed request.  A client whose    *)
(* pause, resume, flush, reload or shutdown was relayed to the main loop   *)
(* is never given a second response, and the response it is given says     *)
(* "ok" exactly when the main loop carried that request out with success,  *)
(* whatever else was waiting in control_rx in the same batch.              *)
(***************************************************************************)
C27_OneTruthfulResponse ==
    \A c \in IpcClients :
        /\ Len(ctl.resp[c]) <= 1
        /\ (ctl.req[c] \in {"pause", "resume", "flush", "reload", "shutdown"}
              /\ ctl.resp[c] # <<>>)
            => (ctl.resp[c][1] = "ok" <=> hist.handled[c] = "ok")

(***************************************************************************)
(* C28: a ping or a status request does not wait for the main loop.  While *)
(* the daemon's process lives, the client whose connection is next in line *)
(* and who asked for a ping or for the status can be answered at once,     *)
(* also while another client's relayed command has not been completed by   *)
(* the main loop.                                                          *)
(***************************************************************************)
C28_PingNotBlocked ==
    \A c \in IpcClients :
        (/\ ctl.alive
         /\ ctl.backlog # <<>> /\ Head(ctl.backlog) = c
         /\ ctl.req[c] \in {"ping", "status"})
            => ENABLED IpcServe(c)

(***************************************************************************)
(* C29: the main loop takes control messages and watcher events in the     *)
(* order in which they arrived.  When an iteration handles the control     *)
(* messages that wait, the oldest message waiting in either channel is a   *)
(* control message: no watcher event that arrived before them is handled   *)
(* after them.  (The other direction: an iteration handles its event only  *)
(* after every control message that waited.)                               *)
(***************************************************************************)
C29_ArrivalOrder ==
    [][/\ (control_rx # <<>> /\ control_rx' = <<>>) => Head(hist.order) = "c"
       /\ (rx # <<>> /\ rx' = Tail(rx) /\ dpc = "loop") => control_rx' = <<>>]_vars

(***************************************************************************)
(* C30: shutdown is cooperative.  In the iteration that reads a Shutdown,  *)
(* every control message that waited in front of it has been carried out,  *)
(* the shutdown request is answered, the socket file is removed and the    *)
(* loop returns; and once the loop has returned nothing is staged.         *)
(***************************************************************************)
C30_CooperativeShutdown ==
    [][/\ ((\E i \in 1..Len(control_rx) : control_rx[i].cmd = "shutdown")
             /\ control_rx' = <<>>)
          => LET k == CHOOSE i \in 1..Len(control_rx) :
                        /\ control_rx[i].cmd = "shutdown"
                        /\ \A j \in 1..(i - 1) : control_rx[j].cmd # "shutdown"
             IN /\ \A j \in 1..(k - 1) : hist'.handled[control_rx[j].from] = "ok"
                /\ ctl'.chan[control_rx[k].from] = "ok"
                /\ ~ctl'.socket
                /\ dpc' = "off"
       /\ dpc = "off" => (dpc' = "off" /\ staged' = staged)]_vars

(***************************************************************************)
(* C24: what is observed while the daemon is paused is never staged.  A    *)
(* path whose latest event the main loop received while paused (the pause  *)
(* deadline set and in the future, or a valid marker there) is not handed  *)
(* to a backend add, neither while the pause lasts nor after it has ended. *)
(***************************************************************************)
C24_PausedEventsNeverStaged ==
    staged \cap hist.paused_seen = {}

FlushAdds == {"auto-add", "stage secret sidecars", "stage managed paths"}

\* the place of a call in the order the claim gives
FlushPhase(c) ==
    CASE c.op = "auto-add" -> 1
      [] c.op \in {"encrypt", "write"} -> 2
      [] c.op = "stage secret sidecars" -> 3
      [] c.op = "stage managed paths" -> 4

AscendingPaths(seq) ==
    \A i \in 1..(Len(seq) - 1) : path_less(seq[i], seq[i + 1])

\* the calls of a flush come in the order auto-add, encryption and sidecar
\* writes, sidecar add, managed add, each add at most once, the managed add
\* in the mode the configuration asks for
FlushPhasesInOrder ==
    flush.ran =>
        /\ \A i, j \in 1..Len(flush.calls) :
              i < j => /\ FlushPhase(flush.calls[i]) <= FlushPhase(flush.calls[j])
                       /\ (flush.calls[i].op \in FlushAdds
                              => flush.calls[i].op # flush.calls[j].op)
        /\ \A i \in 1..Len(flush.calls) :
              LET c == flush.calls[i]
              IN /\ c.op = "auto-add" => (ToSet(c.paths) = flush.auto_add /\ c.mode = "paths")
                 /\ c.op = "stage secret sidecars" => c.mode = "paths"
                 /\ c.op = "stage managed paths" =>
                       /\ ToSet(c.paths) = flush.managed
                       /\ c.mode = (IF flush.ctx.auto_stage_tracked_only
                                    THEN "tracked_only" ELSE "paths")
        /\ flush.ok =>
              /\ flush.auto_add # {} => \E i \in 1..Len(flush.calls) :
                                            flush.calls[i].op = "auto-add"
              /\ flush.managed # {} => \E i \in 1..Len(flush.calls) :
                                           flush.calls[i].op = "stage managed paths"

\* C31: within one flush the stage operations are issued in a fixed order,
\* the auto-add batch, then secret encryption and the staging of the
\* collected ciphertext paths, then the managed batch (tracked-only mode if
\* auto_stage_tracked_only, else named paths), and each batch is passed in
\* ascending path order.
C31_FixedOrderAscendingBatches ==
    /\ FlushPhasesInOrder
    /\ flush.ran =>
          \A i \in 1..Len(flush.calls) :
              flush.calls[i].op \in FlushAdds => AscendingPaths(flush.calls[i].paths)

(***************************************************************************)
(* Properties of the backup phase of deploy.                               *)
(***************************************************************************)
\* the backup directory holds what the home path q held before the deploy:
\* a copy of the node at q, or for the plaintext of a secret rule its
\* encryption at the rule's ciphertext path
BackupHolds(b, q, before) ==
    \/ b[q].kind = before.kind /\ b[q].data = before.data
    \/ \E r \in SecretRules :
          /\ r.path = q
          /\ before.kind = "file"
          /\ b[r.ciphertext].kind = "file"
          /\ b[r.ciphertext].data = Encrypt(before.data)

\* C32: unless backups are disabled, for every home path that a deploy
\* changed or removed, also a deploy that failed midway, the backup
\* directory holds the content the path had before the deploy.  Stated for
\* a deploy whose backup directory is new.
C32_BackupHoldsPreDeployContent ==
    [][\A p \in DeployCLIs :
          (/\ cli[p].pc = "locked" /\ cli'[p].pc # "locked"
           /\ ~cli[p].noBackup /\ backups = EmptyBackup) =>
              \A q \in HomePaths :
                  (fs'[q] # fs[q] /\ fs[q].kind # "absent") =>
                      BackupHolds(backups', q, fs[q])]_vars

\* C33: backup is best-effort: a failure to back up one path (here the read
\* of a secret plaintext under the encrypt policy) neither aborts the backup
\* phase nor the deploy, so whatever apply_target has to write into home is
\* written also when a path could not be backed up.
C33_BackupFailureDoesNotAbort ==
    [][\A p \in DeployCLIs :
          (cli[p].pc = "locked" /\ cli'[p].pc # "locked" /\ ~cli[p].noBackup) =>
              LET enabled == cfgSecrets /\ ~cli[p].noSecrets
                  bc == backup_current(backups, fs, cli[p].current)
                  bs == backup_secrets(bc.b, bc.tree, enabled)
                  a == apply_target(bs.tree, repo[cli[p].resolved], cli[p].target)
              IN \A q \in HomePaths \ {r.path : r \in SecretRules} :
                    a.tree[q] # bs.tree[q] => fs'[q] = a.tree[q]]_vars

(***************************************************************************)
(* Properties of what deploy touches in home.                              *)
(***************************************************************************)
\* the home paths at which the symlink at rel points
PointedAt(tree, rel) ==
    {d \in HomePaths : tree[rel].kind = "symlink" /\ Join(d) = LinkDest(rel, tree[rel].data)}

C35_InhibitedUntilLastGuardEnds ==
    (\E g \in Guards : guard[g].pc = "held") =>
        /\ MarkerActive
        /\ PauseActive
        /\ dpc # "staging"

\* C38: an unreadable or malformed inhibit marker file never terminates the
\* daemon: the main loop returns only on a Shutdown control (the watcher
\* stays connected here).
C38_MarkerErrorNeverTerminates ==
    [][(dpc = "loop" /\ dpc' = "off") =>
          \E i \in 1..Len(control_rx) : control_rx[i].cmd = "shutdown"]_vars

\* C36: active_inhibit never deletes a non-expired marker: a marker that a
\* CLI process wrote while the daemon was removing an expired one is still
\* there when active_inhibit returns.
C36_FreshMarkerSurvives ==
    [][(gc.pc = "read" /\ gc'.pc = "idle" /\ MarkerActive) => marker' = marker]_vars

\* C37: with no pause, no inhibit marker and no other lock holder, once the
\* changes stop arriving a managed path waiting in the debouncer is staged
\* in the end, also when the secret plaintext queued with it cannot be
\* encrypted.
C37_ManagedPathEventuallyStaged ==
    (<>[](rx = <<>>)) => (("c/f" \in debouncer.pending) ~> ("c/f" \in staged))

\* C39: a deploy that takes a backup writes into a directory no earlier
\* deploy has used: whatever an earlier deploy has put into a backup
\* directory is still there, unchanged, after a later deploy's backup.
C39_EarlierBackupNeverOverwritten ==
    [][\A p \in DeployCLIs :
          (cli[p].pc = "locked" /\ ~cli[p].noBackup /\ cli'[p].pc # "locked") =>
              \A q \in HomePaths : backups[q] # Absent => backups'[q] = backups[q]]_vars

\* C40: a deploy leaves every home path as it was, content and type, unless
\* the path is in the revision's target set, is the plaintext path of a
\* secret rule, or is in the current managed set.
DeployMayTouch(p) == cli[p].target \cup {r.path : r \in SecretRules} \cup cli[p].current

C40_DeployTouchesOnlyItsPaths ==
    [][\A p \in DeployCLIs :
          (cli[p].pc = "locked" /\ cli'[p].pc # "locked") =>
              \A q \in HomePaths \ DeployMayTouch(p) : fs'[q] = fs[q]]_vars

====
